---------------------------- MODULE Spec2Model ----------------------------
(***************************************************************************)
(* A model of the acquisition-and-filtering core of ZF_TrendPicking:        *)
(*   - RetryHandler.should_retry            (src/api/rate_limiter.py)      *)
(*   - FinMindClient._make_request          (src/api/finmind_client.py)    *)
(*   - RateLimiter.wait under threads       (src/api/rate_limiter.py)      *)
(*   - HybridClient's three operations      (src/api/hybrid_client.py)     *)
(*   - AdaptiveBatchDownloader.adjust       (src/api/yfinance_client.py)   *)
(*   - YFinanceClient.get_stock_price       (src/api/yfinance_client.py)   *)
(*   - the ticker conversions               (src/api/yfinance_client.py)   *)
(*   - the industry merge of get_stock_info (src/api/finmind_client.py)    *)
(*   - VCPFilter.filter and its indicators  (src/calculators/)             *)
(* Each component has its own specification (SpecRetry, SpecRequest,       *)
(* SpecLimiter, SpecHybrid, SpecDownloader, SpecBatches, SpecSymbols,      *)
(* SpecIndustries, SpecVcp) over the shared variable list; the variables   *)
(* of the other components stay at their constructed values.               *)
(***************************************************************************)
EXTENDS Integers, Sequences, FiniteSets, TLC

(***************************************************************************)
(* Bounds of the model.                                                    *)
(***************************************************************************)
\* number of _make_request calls made on one client
MaxCalls == 2
\* threads sharing one RateLimiter
NumThreads == 2
\* RateLimiter.wait() calls begun, over all threads
MaxWaits == 2
\* clock advances in one behaviour
MaxTicks == 4
\* HybridClient operations called on one coordinator
MaxOps == 2
\* AdaptiveBatchDownloader.adjust() calls on one downloader
MaxAdjusts == 11
\* characters of a stock code
MaxCodeLen == 4
\* raw industry_category rows of one symbol
MaxTags == 3
\* runs of equal rows in the price history of one symbol
MaxRuns == 2
\* the same, for the histories given to SanxianFilter
MaxSanxianRuns == 3
\* observations of the market index given to calculate_market_return
MaxMarketRows == 3
\* rows of one payload given to upsert_daily_price
MaxPayload == 2
\* runs of DailyTask._run_filters
MaxFilterRuns == 2
\* rows of a data array returned for an index dataset
MaxIndexRows == 2
\* entries logged in each log, and calls of the log accessors
MaxLogged == 2
MaxReads == 2

(***************************************************************************)
(* Program constants.                                                      *)
(***************************************************************************)
\* RETRY_CONFIG["max_retries"] when MAX_RETRIES is not set; the environment
\* may configure any smaller non-negative value
DefaultMaxRetries == 3
\* API_CALLS_PER_HOUR
calls_per_hour == 600
\* seconds per hour, as written in RateLimiter
SecondsPerHour == 3600
\* RateLimiter.min_interval = 3600.0 / calls_per_hour
min_interval == SecondsPerHour \div calls_per_hour
\* HybridClient.MIN_STOCK_COUNT
MIN_STOCK_COUNT == 1000
\* HybridClient.MIN_PRICE_RATIO = 0.5, in percent
MIN_PRICE_RATIO_PERCENT == 50
\* AdaptiveBatchDownloader defaults, which YFinanceClient() passes on
initial_batch_size == 100
min_batch_size == 10
max_batch_size == 500
\* seconds
initial_interval == 5
max_interval == 30
\* `self.success_count >= 5`
SUCCESS_THRESHOLD == 5
\* `error_rate > 0.2`, in percent
ERROR_RATE_PERCENT == 20
\* INDUSTRY_PRIORITY.get(x, 50)
DEFAULT_PRIORITY == 50
\* VCP_PARAMS["new_high_tolerance"] = 0.10, in percent
NEW_HIGH_TOLERANCE_PERCENT == 10

(***************************************************************************)
(* Input domains.                                                          *)
(***************************************************************************)
\* HTTP status codes handed to should_retry
StatusCodes == {100, 200, 204, 301, 400, 401, 404, 428, 429, 430, 499,
                500, 502, 503, 599}
\* non-200 statuses a FinMind HTTP response may carry in the request model
HttpErrorStatuses == {404, 429, 503}
\* API-level status of a body delivered with HTTP 200 (data["status"] != 200)
ApiErrorStatuses == {402}
Datasets == {"TaiwanStockPrice"}
\* FinMindError(message, status_code): status_code is {s}, or {} for None
FinMindError(status_code) == <<"FinMindError", status_code>>
\* no exception has left the call
NotRaised == <<>>

VARIABLES
    \* ---- RetryHandler ----
    max_retries,      \* RetryHandler.max_retries
    sr_call,          \* the last should_retry call and its result
    \* ---- FinMindClient._make_request ----
    rq_pc,            \* position of the running call
    rq_params,        \* params of the running call (token excluded)
    retry_count,      \* local retry_count of the running call
    request_count,    \* FinMindClient._request_count
    error_log,        \* FinMindClient._error_log
    rq_waits,         \* RateLimiter.wait() calls made by the running call
    rq_requests,      \* requests.get calls made by the running call
    rq_failed,        \* failed attempts of the running call
    rq_seen,          \* outcomes of the attempts of the running call
    rq_log_start,     \* Len(error_log) when the running call began
    rq_raised,        \* status_code of the FinMindError the call raised
    rq_calls,         \* calls begun on this client
    \* ---- RateLimiter ----
    clock,            \* what time.time() returns, in seconds
    lock,             \* RateLimiter._lock: 0 when free, else the holding thread
    last_call_time,   \* RateLimiter.last_call_time
    call_count,       \* RateLimiter._call_count
    hour_start,       \* RateLimiter._hour_start
    thread,           \* per thread: position in wait(), its locals
    grants,           \* the values written to last_call_time, in order
    ticks,            \* clock advances so far
    started,          \* wait() calls begun
    \* ---- HybridClient ----
    fallback_log,     \* HybridClient._fallback_log
    hy_last,          \* the last operation: its inputs, what the sources did, its outcome
    hy_ops,           \* operations called so far
    \* ---- AdaptiveBatchDownloader ----
    batch_size,       \* AdaptiveBatchDownloader.batch_size
    batch_interval,   \* AdaptiveBatchDownloader.batch_interval
    error_count,      \* AdaptiveBatchDownloader.error_count
    success_count,    \* AdaptiveBatchDownloader.success_count
    adj_hist,         \* the adjust() calls made, in order, each with its effect
    \* ---- YFinanceClient.get_stock_price ----
    yf_pc,            \* position of the running call
    yf_n,             \* len(symbols) of the running call
    yf_retry_count,   \* its retry_count argument
    processed,        \* local `processed`
    batch_symbols,    \* the slice of symbols of the current batch: <<first, last>>
    attempts,         \* outcomes of the attempts made for the current batch
    batch_log,        \* the batches finished by the running call
    yf_request_count, \* YFinanceClient._request_count
    yf_error_count,   \* len(YFinanceClient._error_log)
    \* ---- pure functions: the last call of each and what it returned ----
    sym_call,         \* _to_tw_symbol followed by _from_tw_symbol
    ind_call,         \* the industry merge of one symbol in get_stock_info
    vcp_call,         \* VCPFilter.filter
    sx_call,          \* SanxianFilter.filter
    mr_call,          \* calculate_market_return
    \* ---- SQLiteDatabase ----
    daily_price,      \* rows of table daily_price
    filter_result,    \* rows of table filter_result
    db_call,          \* the last operation on the database and its arguments
    filter_runs,      \* runs of DailyTask._run_filters so far
    \* ---- read operations of the clients ----
    mi_call,          \* the last FinMindClient.get_market_index call
    yf_error_log,     \* the entries of YFinanceClient._error_log
    log_call,         \* the last call of a log accessor and what it returned
    log_reads         \* calls of log accessors so far

retryVars == <<max_retries, sr_call>>
requestVars == <<rq_pc, rq_params, retry_count, request_count, error_log,
                 rq_waits, rq_requests, rq_failed, rq_seen, rq_log_start,
                 rq_raised, rq_calls>>
limiterVars == <<clock, lock, last_call_time, call_count, hour_start, thread,
                 grants, ticks, started>>
hybridVars == <<fallback_log, hy_last, hy_ops>>
downloaderVars == <<batch_size, batch_interval, error_count, success_count,
                    adj_hist>>
batchVars == <<yf_pc, yf_n, yf_retry_count, processed, batch_symbols, attempts,
               batch_log, yf_request_count, yf_error_count>>
calcVars == <<sym_call, ind_call, vcp_call, sx_call, mr_call>>
dbVars == <<daily_price, filter_result, db_call, filter_runs>>
readVars == <<mi_call, yf_error_log, log_call, log_reads>>
vars == <<retryVars, requestVars, limiterVars, hybridVars, downloaderVars,
          batchVars, calcVars, dbVars, readVars>>

otherThanRetry == <<requestVars, limiterVars, hybridVars, downloaderVars,
                    batchVars, calcVars, dbVars, readVars>>
otherThanRequest == <<retryVars, limiterVars, hybridVars, downloaderVars,
                      batchVars, calcVars, dbVars, readVars>>
otherThanLimiter == <<retryVars, requestVars, hybridVars, downloaderVars,
                      batchVars, calcVars, dbVars, readVars>>
otherThanHybrid == <<retryVars, requestVars, limiterVars, downloaderVars,
                     batchVars, calcVars, dbVars, readVars>>
otherThanDownloader == <<retryVars, requestVars, limiterVars, hybridVars,
                         batchVars, calcVars, dbVars, readVars>>
otherThanYFinance == <<retryVars, requestVars, limiterVars, hybridVars,
                       calcVars, dbVars, readVars>>
otherThanCalc == <<retryVars, requestVars, limiterVars, hybridVars,
                   downloaderVars, batchVars, dbVars, readVars>>
otherThanDatabase == <<retryVars, requestVars, limiterVars, hybridVars,
                       downloaderVars, batchVars, calcVars, readVars>>
otherThanReads == <<retryVars, requestVars, limiterVars, hybridVars,
                    downloaderVars, batchVars, calcVars, dbVars>>

(***************************************************************************)
(* Constructed state of each component.                                    *)
(***************************************************************************)
NoCall == [called |-> FALSE, status_code |-> 0, retry_count |-> 0, result |-> FALSE]

\* RetryHandler(max_retries=RETRY_CONFIG["max_retries"], ...)
InitRetryHandler ==
    /\ max_retries = DefaultMaxRetries
    /\ sr_call = NoCall

\* the same, MAX_RETRIES configured to any value from 0 to the default
InitRetryHandlerConfigured ==
    /\ max_retries \in 0..DefaultMaxRetries
    /\ sr_call = NoCall

InitFinMindClient ==
    /\ rq_pc = "idle"
    /\ rq_params = "none"
    /\ retry_count = 0
    /\ request_count = 0
    /\ error_log = <<>>
    /\ rq_waits = 0
    /\ rq_requests = 0
    /\ rq_failed = 0
    /\ rq_seen = {}
    /\ rq_log_start = 0
    /\ rq_raised = NotRaised
    /\ rq_calls = 0

Threads == 1..NumThreads
\* wall-clock times at which a RateLimiter is constructed
StartTimes == {7200}
\* seconds by which the clock advances between two steps of the threads
TickSteps == {1, 5, 3600}
Idle == [pc |-> "idle", now |-> 0, wait_time |-> 0, wake_at |-> 0]

InitRateLimiter ==
    /\ clock \in StartTimes
    /\ lock = 0
    /\ last_call_time = 0
    /\ call_count = 0
    /\ hour_start = clock
    /\ thread = [t \in Threads |-> Idle]
    /\ grants = <<>>
    /\ ticks = 0
    /\ started = 0

\* what a source did when asked: it raised, or returned a table; `syms` are
\* the symbols a price table has rows for, `len` the rows of another table
SourceOutcome(raises, syms, len) == [raises |-> raises, syms |-> syms, len |-> len]
NotAsked == SourceOutcome(FALSE, {}, 0)
NoOutcome == [result |-> <<>>, events |-> <<>>, calls |-> <<>>, raised |-> FALSE]
NoOp == [method |-> "none", stock_ids |-> <<>>, yf |-> NotAsked, fm |-> NotAsked,
         out |-> NoOutcome]

InitHybridClient ==
    /\ fallback_log = <<>>
    /\ hy_last = NoOp
    /\ hy_ops = 0

\* AdaptiveBatchDownloader.__init__ with the starting size given
InitDownloader(size) ==
    /\ batch_size = size
    /\ batch_interval = initial_interval
    /\ error_count = 0
    /\ success_count = 0
    /\ adj_hist = <<>>

\* YFinanceClient.__init__, no get_stock_price call begun
InitYFinanceClient ==
    /\ yf_pc = "idle"
    /\ yf_n = 0
    /\ yf_retry_count = 0
    /\ processed = 0
    /\ batch_symbols = <<1, 0>>
    /\ attempts = <<>>
    /\ batch_log = <<>>
    /\ yf_request_count = 0
    /\ yf_error_count = 0

\* no pure function called yet
NoSymbolCall == [called |-> FALSE, stock_id |-> <<>>, market |-> "twse",
                 symbol |-> <<>>, back |-> <<>>]
NoIndustryCall == [called |-> FALSE, industry_list |-> <<>>,
                   industry_category |-> "-", industry_category2 |-> "-"]
NoFilterCall == [called |-> FALSE, history |-> <<>>, companion |-> FALSE,
                 market_return_20d |-> <<0, 100>>, result |-> {}]
NoSanxianCall == [called |-> FALSE, history |-> <<>>, last_close_missing |-> FALSE,
                  result |-> {}]
NoMarketReturnCall == [called |-> FALSE, market_df |-> <<>>, target_date |-> 0,
                       lookback |-> 0, result |-> <<0, 1>>]
NoIndexCall == [called |-> FALSE]
NoLogCall == [op |-> "none"]
InitReads ==
    /\ mi_call = NoIndexCall
    /\ yf_error_log = <<>>
    /\ log_call = NoLogCall
    /\ log_reads = 0

InitCalc ==
    /\ sym_call = NoSymbolCall
    /\ ind_call = NoIndustryCall
    /\ vcp_call = NoFilterCall
    /\ sx_call = NoSanxianCall
    /\ mr_call = NoMarketReturnCall

NoDatabaseCall == [op |-> "none"]
\* the tables after create_tables, with the rows `prices` in daily_price
InitSQLiteDatabase(prices) ==
    /\ daily_price = prices
    /\ filter_result = {}
    /\ db_call = NoDatabaseCall
    /\ filter_runs = 0

InitClients ==
    /\ InitRetryHandler /\ InitFinMindClient /\ InitRateLimiter
    /\ InitHybridClient /\ InitDownloader(initial_batch_size)
    /\ InitYFinanceClient /\ InitCalc /\ InitReads

Init ==
    /\ InitClients
    /\ InitSQLiteDatabase({})

InitConfigured ==
    /\ InitRetryHandlerConfigured
    /\ InitFinMindClient /\ InitRateLimiter /\ InitHybridClient
    /\ InitDownloader(initial_batch_size)
    /\ InitYFinanceClient /\ InitCalc /\ InitReads
    /\ InitSQLiteDatabase({})

(***************************************************************************)
(* RetryHandler.should_retry                                               *)
(***************************************************************************)
should_retry_off_by_one(status_code, retry_cnt) ==
    IF retry_cnt > max_retries
    THEN FALSE
    ELSE status_code >= 500 \/ status_code = 429

should_retry_client_errors(status_code, retry_cnt) ==
    IF retry_cnt >= max_retries
    THEN FALSE
    ELSE status_code >= 400

should_retry(status_code, retry_cnt) ==
    IF retry_cnt >= max_retries
    THEN FALSE
    ELSE status_code >= 500 \/ status_code = 429

\* a caller asks the handler about any status code and attempt index
ShouldRetryCall ==
    /\ \E s \in StatusCodes, r \in 0..(DefaultMaxRetries + 1) :
          sr_call' = [called |-> TRUE, status_code |-> s, retry_count |-> r,
                      result |-> should_retry(s, r)]
    /\ UNCHANGED <<max_retries, otherThanRetry>>

NextRetry == ShouldRetryCall

SpecRetry == InitConfigured /\ [][NextRetry]_vars

(***************************************************************************)
(* FinMindClient._make_request                                             *)
(***************************************************************************)
LogEntry(params, status_code, retry_cnt) ==
    [params |-> params, status_code |-> status_code, retry_count |-> retry_cnt]

\* _log_error: one entry appended
log_error(log, params, status_code, retry_cnt) ==
    Append(log, LogEntry(params, status_code, retry_cnt))

\* a caller (get_stock_info, get_stock_price, get_market_index) starts a call
RqBegin ==
    /\ rq_pc \in {"idle", "returned", "raised"}
    /\ rq_calls < MaxCalls
    /\ \E d \in Datasets : rq_params' = d
    /\ rq_pc' = "limiter"
    /\ retry_count' = 0
    /\ rq_waits' = 0
    /\ rq_requests' = 0
    /\ rq_failed' = 0
    /\ rq_seen' = {}
    /\ rq_log_start' = Len(error_log)
    /\ rq_raised' = NotRaised
    /\ rq_calls' = rq_calls + 1
    /\ UNCHANGED <<request_count, error_log, otherThanRequest>>

\* top of the while loop: `with self.rate_limiter` calls RateLimiter.wait()
RqEnterLimiter ==
    /\ rq_pc = "limiter"
    /\ rq_waits' = rq_waits + 1
    /\ rq_pc' = "request"
    /\ UNCHANGED <<rq_params, retry_count, request_count, error_log,
                   rq_requests, rq_failed, rq_seen, rq_log_start, rq_raised,
                   rq_calls, otherThanRequest>>

\* requests.get answers 200 and the body's status is 200: return data
RqRespondOk ==
    /\ rq_pc = "request"
    /\ request_count' = request_count + 1
    /\ rq_requests' = rq_requests + 1
    /\ rq_seen' = rq_seen \cup {<<"ok", 200>>}
    /\ rq_pc' = "returned"
    /\ UNCHANGED <<rq_params, retry_count, error_log, rq_waits, rq_failed,
                   rq_log_start, rq_raised, rq_calls, otherThanRequest>>

\* requests.get answers 200 but the body's status is not 200: FinMindError is
\* raised inside the try block and is no RequestException, so it leaves the call
RqRespondApiError ==
    /\ rq_pc = "request"
    /\ \E a \in ApiErrorStatuses :
          /\ rq_seen' = rq_seen \cup {<<"api", a>>}
          /\ rq_raised' = FinMindError({a})
    /\ request_count' = request_count + 1
    /\ rq_requests' = rq_requests + 1
    /\ rq_failed' = rq_failed + 1
    /\ rq_pc' = "raised"
    /\ UNCHANGED <<rq_params, retry_count, error_log, rq_waits,
                   rq_log_start, rq_calls, otherThanRequest>>

\* requests.get answers a non-200 status
RqRespondHttpError ==
    /\ rq_pc = "request"
    /\ \E s \in HttpErrorStatuses :
          /\ rq_seen' = rq_seen \cup {<<"http", s>>}
          /\ error_log' = log_error(error_log, rq_params, s, retry_count)
          /\ IF should_retry(s, retry_count)
             THEN /\ retry_count' = retry_count + 1
                  /\ rq_pc' = "limiter"
                  /\ UNCHANGED rq_raised
             ELSE /\ rq_raised' = FinMindError({s})
                  /\ rq_pc' = "raised"
                  /\ UNCHANGED retry_count
    /\ request_count' = request_count + 1
    /\ rq_requests' = rq_requests + 1
    /\ rq_failed' = rq_failed + 1
    /\ UNCHANGED <<rq_params, rq_waits, rq_log_start, rq_calls, otherThanRequest>>

retry_after_exception_once_more(retry_cnt) == retry_cnt <= max_retries

\* `if retry_count < self.retry_handler.max_retries:` of the except branch
retry_after_exception(retry_cnt) == retry_cnt < max_retries

\* requests.get raises a RequestException (timeout, connection error)
RqRequestException ==
    /\ rq_pc = "request"
    /\ rq_seen' = rq_seen \cup {<<"exception", 0>>}
    /\ IF retry_after_exception(retry_count)
       THEN /\ retry_count' = retry_count + 1
            /\ rq_pc' = "limiter"
            /\ UNCHANGED rq_raised
       ELSE /\ rq_raised' = FinMindError({})
            /\ rq_pc' = "raised"
            /\ UNCHANGED retry_count
    /\ request_count' = request_count + 1
    /\ rq_requests' = rq_requests + 1
    /\ rq_failed' = rq_failed + 1
    /\ UNCHANGED <<rq_params, error_log, rq_waits, rq_log_start, rq_calls,
                   otherThanRequest>>

NextRequest ==
    \/ RqBegin
    \/ RqEnterLimiter
    \/ RqRespondOk
    \/ RqRespondApiError
    \/ RqRespondHttpError
    \/ RqRequestException

SpecRequest == InitConfigured /\ [][NextRequest]_vars

\* one attempt: requests.get(..., timeout=30) answers or raises
RqAttempt ==
    \/ RqRespondOk
    \/ RqRespondApiError
    \/ RqRespondHttpError
    \/ RqRequestException

\* RateLimiter.wait() sleeps a bounded time and every attempt ends within
\* its timeout, so a running call always takes its next step
SpecRequestFair ==
    SpecRequest /\ WF_vars(RqEnterLimiter) /\ WF_vars(RqAttempt)

(***************************************************************************)
(* RateLimiter.wait, called by several threads.  time.time() is read where *)
(* the code reads it; the clock never runs backwards and time.sleep(d)     *)
(* returns no earlier than d seconds after it was called.                  *)
(***************************************************************************)
compute_wait_time_none(elapsed) == 0

\* wait_time = min_interval - elapsed when elapsed < min_interval, else 0.0
compute_wait_time(elapsed) ==
    IF elapsed < min_interval THEN min_interval - elapsed ELSE 0

\* Lock.acquire() succeeds only on a free lock
lock_is_free(t) == lock = 0

\* `with self._lock:` entered
WaitAcquire(t) ==
    /\ thread[t].pc = "idle"
    /\ started < MaxWaits
    /\ lock_is_free(t)
    /\ lock' = t
    /\ started' = started + 1
    /\ thread' = [thread EXCEPT ![t].pc = "locked"]
    /\ UNCHANGED <<clock, last_call_time, call_count, hour_start, grants,
                   ticks, otherThanLimiter>>

\* now = time.time(); the hourly counter reset; elapsed and wait_time
WaitReadNow(t) ==
    /\ thread[t].pc = "locked"
    /\ LET now == clock
           reset == now - hour_start >= SecondsPerHour
           elapsed == now - last_call_time
           wt == compute_wait_time(elapsed)
       IN /\ hour_start' = IF reset THEN now ELSE hour_start
          /\ call_count' = IF reset THEN 0 ELSE call_count
          /\ thread' = [thread EXCEPT ![t] =
                 [pc |-> IF elapsed < min_interval THEN "sleep" ELSE "stamp",
                  now |-> now, wait_time |-> wt, wake_at |-> 0]]
    /\ UNCHANGED <<clock, lock, last_call_time, grants, ticks, started,
                   otherThanLimiter>>

\* time.sleep(wait_time) is called
WaitSleep(t) ==
    /\ thread[t].pc = "sleep"
    /\ thread' = [thread EXCEPT ![t].pc = "sleeping",
                                ![t].wake_at = clock + thread[t].wait_time]
    /\ UNCHANGED <<clock, lock, last_call_time, call_count, hour_start,
                   grants, ticks, started, otherThanLimiter>>

\* time.sleep returns
WaitWake(t) ==
    /\ thread[t].pc = "sleeping"
    /\ clock >= thread[t].wake_at
    /\ thread' = [thread EXCEPT ![t].pc = "stamp"]
    /\ UNCHANGED <<clock, lock, last_call_time, call_count, hour_start,
                   grants, ticks, started, otherThanLimiter>>

\* self.last_call_time = time.time(); self._call_count += 1; lock released
WaitStamp(t) ==
    /\ thread[t].pc = "stamp"
    /\ last_call_time' = clock
    /\ call_count' = call_count + 1
    /\ grants' = Append(grants, [thread |-> t, time |-> clock,
                                 waited |-> thread[t].wait_time])
    /\ lock' = IF lock = t THEN 0 ELSE lock
    /\ thread' = [thread EXCEPT ![t] = Idle]
    /\ UNCHANGED <<clock, hour_start, ticks, started, otherThanLimiter>>

\* time passes
Tick ==
    /\ ticks < MaxTicks
    /\ \E d \in TickSteps : clock' = clock + d
    /\ ticks' = ticks + 1
    /\ UNCHANGED <<lock, last_call_time, call_count, hour_start, thread,
                   grants, started, otherThanLimiter>>

NextLimiter ==
    \/ \E t \in Threads : WaitAcquire(t)
    \/ \E t \in Threads : WaitReadNow(t)
    \/ \E t \in Threads : WaitSleep(t)
    \/ \E t \in Threads : WaitWake(t)
    \/ \E t \in Threads : WaitStamp(t)
    \/ Tick

SpecLimiter == Init /\ [][NextLimiter]_vars

(***************************************************************************)
(* HybridClient.  A price table is the sequence of its rows, each row      *)
(* [stock_id, date, src]; a stock list or an index series is [src, len].   *)
(* The two clients are the environment: each call raises or returns a      *)
(* table, as chosen by the action.                                         *)
(***************************************************************************)
Symbols == {"1101", "2330", "6488"}
\* the order in which the FinMind API lists symbols
SymbolOrder == <<"1101", "2330", "6488">>
\* trading dates of the requested range
Dates == <<1, 2>>
\* list(market_types.keys()), list(stock_info.keys()): no symbol twice
StockIdLists ==
    {ids \in UNION {[1..n -> Symbols] : n \in 0..Cardinality(Symbols)} :
        \A i, j \in DOMAIN ids : i /= j => ids[i] /= ids[j]}
\* lengths of the stock lists and index series a source may return
InfoLens == {0, 1, 999, 1000, 1001}
IndexLens == {0, 1, 20}

Range(seq) == {seq[i] : i \in DOMAIN seq}
EmptyFrame == <<>>
EmptyTable == [src |-> "none", len |-> 0]
Table(src, len) == [src |-> src, len |-> len]
RowsOf(stock_id, src) ==
    [i \in DOMAIN Dates |-> [stock_id |-> stock_id, date |-> Dates[i], src |-> src]]
\* set(df["stock_id"].unique())
StockIdsOf(df) == {df[i].stock_id : i \in DOMAIN df}

RECURSIVE RowsOfAll(_, _, _)
\* the rows of the symbols of `ids` that are in `have`, in the order of `ids`
RowsOfAll(ids, have, src) ==
    IF ids = <<>> THEN <<>>
    ELSE (IF Head(ids) \in have THEN RowsOf(Head(ids), src) ELSE <<>>)
         \o RowsOfAll(Tail(ids), have, src)

\* YFinanceClient.get_stock_price: per requested symbol, in request order, the
\* rows of the symbols the bulk responses had data for
yf_get_stock_price(stock_ids, fetched) ==
    IF stock_ids = <<>> THEN EmptyFrame
    ELSE RowsOfAll(stock_ids, fetched, "yfinance")

finmind_get_stock_price_unfiltered(id_set, raw) ==
    RowsOfAll(SymbolOrder, raw, "FinMind")

\* FinMindClient.get_stock_price: one request for the whole date range, the
\* answer post-filtered to the requested symbols when some are given
finmind_get_stock_price(id_set, raw) ==
    LET df == RowsOfAll(SymbolOrder, raw, "FinMind")
    IN IF raw = {} THEN EmptyFrame
       ELSE IF id_set /= {} THEN SelectSeq(df, LAMBDA r : r.stock_id \in id_set)
       ELSE df

\* _log_fallback: the event appended (its time stamp left out)
FallbackEvent(method, primary, fallback, reason) ==
    [method |-> method, primary |-> primary, fallback |-> fallback,
     reason |-> reason]

Call(client, method, ids) == [client |-> client, method |-> method, ids |-> ids]
Outcome(result, events, calls) ==
    [result |-> result, events |-> events, calls |-> calls, raised |-> FALSE]

except_Exception_skipped(src) == FALSE

\* `try: <source call> except Exception as e:` around every source call of
\* the three operations: the handler takes whatever the source raised
except_Exception(src) == src.raises

\* what leaves the operation: an exception of the first source asked, or of
\* the second if it was asked, that its handler did not take
Propagate(out, first, second) ==
    IF first.raises /\ ~except_Exception(first)
    THEN [result |-> out.result, events |-> <<>>, calls |-> <<out.calls[1]>>,
          raised |-> TRUE]
    ELSE IF Len(out.calls) >= 2 /\ second.raises /\ ~except_Exception(second)
    THEN [out EXCEPT !.raised = TRUE]
    ELSE out

stock_count_too_low_inclusive(len) == len <= MIN_STOCK_COUNT

\* len(df) < self.MIN_STOCK_COUNT
stock_count_too_low(len) == len < MIN_STOCK_COUNT

\* HybridClient.get_stock_info
get_stock_info(fm, yf) ==
    LET primary_ok == ~fm.raises /\ fm.len /= 0 /\ ~stock_count_too_low(fm.len)
        reason == IF fm.raises THEN <<"API error">>
                  ELSE IF fm.len = 0 THEN <<"empty">>
                  ELSE <<"incomplete", fm.len, MIN_STOCK_COUNT>>
        event == FallbackEvent("get_stock_info", "FinMind", "yfinance", reason)
        c1 == Call("FinMind", "get_stock_info", {})
        c2 == Call("yfinance", "get_stock_info", {})
    IN Propagate(
          IF primary_ok
          THEN Outcome(Table("FinMind", fm.len), <<>>, <<c1>>)
          ELSE IF ~yf.raises /\ yf.len /= 0
          THEN Outcome(Table("yfinance", yf.len), <<event>>, <<c1, c2>>)
          ELSE Outcome(EmptyTable, <<event>>, <<c1, c2>>),
          fm, yf)

success_ratio_too_low_inclusive(fetched_count, expected_count) ==
    100 * fetched_count <= MIN_PRICE_RATIO_PERCENT * expected_count

\* success_ratio = len(fetched_stocks) / expected_count < self.MIN_PRICE_RATIO
success_ratio_too_low(fetched_count, expected_count) ==
    100 * fetched_count < MIN_PRICE_RATIO_PERCENT * expected_count

gap_fill_failed_empty(primary_df) == EmptyFrame

\* the gap-fill raised or returned nothing: return primary_df
gap_fill_failed(primary_df) == primary_df

missing_from_nothing(requested_stocks, fetched_stocks) == requested_stocks

\* missing_stocks = requested_stocks - fetched_stocks
missing_from(requested_stocks, fetched_stocks) ==
    requested_stocks \ fetched_stocks

\* HybridClient.get_stock_price
get_stock_price(stock_ids, yf, fm) ==
    LET expected_count == Len(stock_ids)
        requested_stocks == Range(stock_ids)
        c1 == Call("yfinance", "get_stock_price", requested_stocks)
        primary_df == IF yf.raises THEN EmptyFrame
                      ELSE yf_get_stock_price(stock_ids, yf.syms)
        fetched_stocks == StockIdsOf(primary_df)
        low == success_ratio_too_low(Cardinality(fetched_stocks), expected_count)
        need_full_fallback == yf.raises \/ primary_df = EmptyFrame \/ low
        reason == IF yf.raises THEN <<"API error">>
                  ELSE IF primary_df = EmptyFrame THEN <<"empty">>
                  ELSE <<"low ratio", Cardinality(fetched_stocks), expected_count>>
        event == FallbackEvent("get_stock_price", "yfinance", "FinMind", reason)
        \* full fallback
        c_full == Call("FinMind", "get_stock_price", requested_stocks)
        fallback_df == IF fm.raises THEN EmptyFrame
                       ELSE finmind_get_stock_price(requested_stocks, fm.syms)
        \* gap-fill
        missing_stocks == missing_from(requested_stocks, fetched_stocks)
        c_fill == Call("FinMind", "get_stock_price", missing_stocks)
        fill_df == IF fm.raises THEN EmptyFrame
                   ELSE finmind_get_stock_price(missing_stocks, fm.syms)
        fill_event == FallbackEvent("get_stock_price_fill", "yfinance", "FinMind",
                         <<"filled", Cardinality(StockIdsOf(fill_df)),
                           Cardinality(missing_stocks)>>)
    IN IF stock_ids = <<>>
       THEN Outcome(EmptyFrame, <<>>, <<>>)
       ELSE Propagate(
          IF need_full_fallback
          THEN Outcome(fallback_df, <<event>>, <<c1, c_full>>)
          ELSE IF missing_stocks = {}
          THEN Outcome(primary_df, <<>>, <<c1>>)
          ELSE IF fill_df /= EmptyFrame
          THEN Outcome(primary_df \o fill_df, <<fill_event>>, <<c1, c_fill>>)
          ELSE Outcome(gap_fill_failed(primary_df), <<>>, <<c1, c_fill>>),
          yf, fm)

get_market_index_merging(yf, fm) ==
    Outcome(Table(IF ~yf.raises /\ yf.len /= 0 /\ ~fm.raises /\ fm.len /= 0
                  THEN "both"
                  ELSE IF ~yf.raises /\ yf.len /= 0 THEN "yfinance"
                  ELSE IF ~fm.raises /\ fm.len /= 0 THEN "FinMind" ELSE "none",
                  (IF yf.raises THEN 0 ELSE yf.len) + (IF fm.raises THEN 0 ELSE fm.len)),
            <<>>,
            <<Call("yfinance", "get_market_index", {}),
              Call("FinMind", "get_market_index", {})>>)

\* HybridClient.get_market_index
get_market_index(yf, fm) ==
    LET reason == IF yf.raises THEN <<"API error">> ELSE <<"empty">>
        event == FallbackEvent("get_market_index", "yfinance", "FinMind", reason)
        c1 == Call("yfinance", "get_market_index", {})
        c2 == Call("FinMind", "get_market_index", {})
    IN Propagate(
          IF ~yf.raises /\ yf.len /= 0
          THEN Outcome(Table("yfinance", yf.len), <<>>, <<c1>>)
          ELSE IF ~fm.raises /\ fm.len /= 0
          THEN Outcome(Table("FinMind", fm.len), <<event>>, <<c1, c2>>)
          ELSE Outcome(EmptyTable, <<event>>, <<c1, c2>>),
          yf, fm)

TableOutcomes(lens) ==
    {SourceOutcome(TRUE, {}, 0)} \cup {SourceOutcome(FALSE, {}, n) : n \in lens}
PriceOutcomes(syms) ==
    {SourceOutcome(TRUE, {}, 0)} \cup {SourceOutcome(FALSE, S, 0) : S \in SUBSET syms}

Record(method, stock_ids, yf, fm, out) ==
    /\ hy_last' = [method |-> method, stock_ids |-> stock_ids, yf |-> yf,
                   fm |-> fm, out |-> out]
    /\ fallback_log' = fallback_log \o out.events
    /\ hy_ops' = hy_ops + 1
    /\ UNCHANGED otherThanHybrid

GetStockInfo ==
    /\ hy_ops < MaxOps
    /\ \E fm \in TableOutcomes(InfoLens), yf \in TableOutcomes({0, 950}) :
          Record("get_stock_info", <<>>, yf, fm, get_stock_info(fm, yf))

GetStockPrice ==
    /\ hy_ops < MaxOps
    /\ \E stock_ids \in StockIdLists :
       \E yf \in PriceOutcomes(Range(stock_ids)), fm \in PriceOutcomes(Symbols) :
          Record("get_stock_price", stock_ids, yf, fm,
                 get_stock_price(stock_ids, yf, fm))

GetMarketIndex ==
    /\ hy_ops < MaxOps
    /\ \E yf \in TableOutcomes(IndexLens), fm \in TableOutcomes(IndexLens) :
          Record("get_market_index", <<>>, yf, fm, get_market_index(yf, fm))

NextHybrid ==
    \/ GetStockInfo
    \/ GetStockPrice
    \/ GetMarketIndex

SpecHybrid == Init /\ [][NextHybrid]_vars

(***************************************************************************)
(* AdaptiveBatchDownloader.adjust                                          *)
(***************************************************************************)
\* initial_batch_size values a downloader is constructed with
StartingBatchSizes == {10, 100, 300, 500}

Min(a, b) == IF a <= b THEN a ELSE b
Max(a, b) == IF a >= b THEN a ELSE b

Downloader(size, interval, errors, successes) ==
    [batch_size |-> size, batch_interval |-> interval,
     error_count |-> errors, success_count |-> successes]

\* error_rate = error_count / total if total > 0 else 0;  error_rate > 0.2
error_rate_too_high(errors, total) ==
    total > 0 /\ 100 * errors > ERROR_RATE_PERCENT * total

\* the branch `if success:` of adjust
adjust_success(d) ==
    LET successes == d.success_count + 1
        grown == Min(d.batch_size * 2, max_batch_size)
    IN IF successes >= SUCCESS_THRESHOLD /\ d.batch_size < max_batch_size
       THEN Downloader(grown, d.batch_interval, d.error_count,
                       IF grown /= d.batch_size THEN 0 ELSE successes)
       ELSE Downloader(d.batch_size, d.batch_interval, d.error_count, successes)

adjust_failure_unclamped(d) ==
    LET errors == d.error_count + 1
        total == d.success_count + errors
    IN IF error_rate_too_high(errors, total)
       THEN Downloader(d.batch_size \div 2, d.batch_interval * 2, 0, 0)
       ELSE Downloader(d.batch_size, d.batch_interval, errors, d.success_count)

\* the branch `else:` of adjust
adjust_failure(d) ==
    LET errors == d.error_count + 1
        total == d.success_count + errors
    IN IF error_rate_too_high(errors, total)
       THEN Downloader(Max(d.batch_size \div 2, min_batch_size),
                       Min(d.batch_interval * 2, max_interval), 0, 0)
       ELSE Downloader(d.batch_size, d.batch_interval, errors, d.success_count)

\* AdaptiveBatchDownloader.adjust(success)
adjust(d, success) == IF success THEN adjust_success(d) ELSE adjust_failure(d)

\* the downloader as it stands
Self == Downloader(batch_size, batch_interval, error_count, success_count)

\* one adjust() call, with the fields before and after it
AdjustCall(success, before, after) ==
    [success |-> success, before |-> before, after |-> after]

Adjust ==
    /\ Len(adj_hist) < MaxAdjusts
    /\ \E success \in BOOLEAN :
          LET after == adjust(Self, success)
          IN /\ batch_size' = after.batch_size
             /\ batch_interval' = after.batch_interval
             /\ error_count' = after.error_count
             /\ success_count' = after.success_count
             /\ adj_hist' = Append(adj_hist, AdjustCall(success, Self, after))
    /\ UNCHANGED otherThanDownloader

NextDownloader == Adjust

InitAnyDownloader ==
    /\ InitRetryHandler /\ InitFinMindClient /\ InitRateLimiter
    /\ InitHybridClient /\ InitYFinanceClient /\ InitCalc /\ InitReads
    /\ \E size \in StartingBatchSizes : InitDownloader(size)
    /\ InitSQLiteDatabase({})

SpecDownloader == InitAnyDownloader /\ [][NextDownloader]_vars

(***************************************************************************)
(* YFinanceClient.get_stock_price: the batch loop                          *)
(***************************************************************************)
\* len(stock_ids) of a call
SymbolCounts == {0, 1, 100, 101, 180}
\* retry_count of a call
RetryCounts == {1, 3}
\* what one pass through the `try:` body does: it raises (yf.download or
\* the processing of its frame), or yf.download returns an empty table, or
\* it returns rows
AttemptOutcomes == {"raise", "empty", "rows"}

attempt_returned_rows_only(outcome) == outcome = "rows"

\* the attempt reached `success = True; break`: rows, or an empty table
attempt_returned(outcome) == outcome \in {"rows", "empty"}

Slice_past_the_end(done, size, n) == <<done + 1, done + size>>

\* symbols[processed:processed + batch_size], as <<first, last>> positions
Slice(done, size, n) == <<done + 1, Min(done + size, n)>>

Batch(slice, outcomes, success) ==
    [symbols |-> slice, attempts |-> outcomes, success |-> success]

\* the end of one pass of `while processed < len(symbols)`: adjust(success),
\* the counters, and the slice of the next batch if symbols remain
EndBatch(success, outcomes) ==
    LET after == adjust(Self, success)
        done == processed + (batch_symbols[2] - batch_symbols[1] + 1)
    IN /\ batch_size' = after.batch_size
       /\ batch_interval' = after.batch_interval
       /\ error_count' = after.error_count
       /\ success_count' = after.success_count
       /\ adj_hist' = Append(adj_hist, AdjustCall(success, Self, after))
       /\ yf_request_count' = yf_request_count + 1
       /\ processed' = done
       /\ batch_log' = Append(batch_log, Batch(batch_symbols, outcomes, success))
       /\ attempts' = <<>>
       /\ IF done < yf_n
          THEN /\ yf_pc' = "download"
               /\ batch_symbols' = Slice(done, after.batch_size, yf_n)
          ELSE /\ yf_pc' = "returned"
               /\ UNCHANGED batch_symbols

\* get_stock_price is called: up to the first yf.download
YfBegin ==
    /\ yf_pc = "idle"
    /\ \E n \in SymbolCounts, r \in RetryCounts :
          /\ yf_n' = n
          /\ yf_retry_count' = r
          /\ yf_pc' = IF n = 0 THEN "returned" ELSE "download"
          /\ batch_symbols' = Slice(0, batch_size, n)
    /\ processed' = 0
    /\ attempts' = <<>>
    /\ batch_log' = <<>>
    /\ UNCHANGED <<yf_request_count, yf_error_count, downloaderVars,
                   otherThanYFinance>>

\* yf.download returns, and the frame (if any) is processed
YfDownloadReturns ==
    /\ yf_pc = "download"
    /\ \E outcome \in AttemptOutcomes \ {"raise"} :
          EndBatch(attempt_returned(outcome), Append(attempts, outcome))
    /\ UNCHANGED <<yf_n, yf_retry_count, yf_error_count, otherThanYFinance>>

\* the `try:` body raises: `except Exception`, then the next attempt or, at
\* the last attempt, the end of the batch
YfDownloadRaises ==
    /\ yf_pc = "download"
    /\ yf_error_count' = yf_error_count + 1
    /\ IF Len(attempts) < yf_retry_count - 1
       THEN /\ attempts' = Append(attempts, "raise")
            /\ UNCHANGED <<yf_pc, processed, batch_symbols, batch_log,
                           yf_request_count, downloaderVars>>
       ELSE EndBatch(attempt_returned("raise"), Append(attempts, "raise"))
    /\ UNCHANGED <<yf_n, yf_retry_count, otherThanYFinance>>

NextBatches ==
    \/ YfBegin
    \/ YfDownloadReturns
    \/ YfDownloadRaises

SpecBatches == Init /\ [][NextBatches]_vars

(***************************************************************************)
(* YFinanceClient._to_tw_symbol / _from_tw_symbol                          *)
(* A string is the sequence of its characters.                             *)
(***************************************************************************)
\* characters of stock codes: digits, and the letters some codes end with
CodeChars == {"0", "2", "3", "O", "T", "W"}
StockCodes == UNION {[1..k -> CodeChars] : k \in 1..MaxCodeLen}
Markets == {"twse", "tpex"}
SuffixTW == <<".", "T", "W">>
SuffixTWO == <<".", "T", "W", "O">>

\* str.endswith
endswith(str, suffix) ==
    /\ Len(str) >= Len(suffix)
    /\ SubSeq(str, Len(str) - Len(suffix) + 1, Len(str)) = suffix

\* str[:-k]
drop_last(str, k) == SubSeq(str, 1, Len(str) - k)

\* YFinanceClient._to_tw_symbol
to_tw_symbol(stock_id, market) ==
    stock_id \o (IF market = "twse" THEN SuffixTW ELSE SuffixTWO)

from_tw_symbol_strip_three(symbol) ==
    IF endswith(symbol, SuffixTWO) \/ endswith(symbol, SuffixTW)
    THEN drop_last(symbol, 3)
    ELSE symbol

\* YFinanceClient._from_tw_symbol
from_tw_symbol(symbol) ==
    IF endswith(symbol, SuffixTWO) THEN drop_last(symbol, 4)
    ELSE IF endswith(symbol, SuffixTW) THEN drop_last(symbol, 3)
    ELSE symbol

\* a code is converted to its ticker and back, as get_stock_price and
\* _process_batch_data do for every symbol of a batch
ConvertSymbol ==
    /\ ~sym_call.called
    /\ \E stock_id \in StockCodes, market \in Markets :
          LET symbol == to_tw_symbol(stock_id, market)
          IN sym_call' = [called |-> TRUE, stock_id |-> stock_id,
                          market |-> market, symbol |-> symbol,
                          back |-> from_tw_symbol(symbol)]
    /\ UNCHANGED <<ind_call, vcp_call, sx_call, mr_call, otherThanCalc>>

NextSymbols == ConvertSymbol

SpecSymbols == Init /\ [][NextSymbols]_vars

(***************************************************************************)
(* FinMindClient.get_stock_info: the merge of a symbol's industry tags     *)
(* The labels are written in English: "Electronics" is the broad           *)
(* electronics-industry tag (rank 9), "Semiconductor" the semiconductor    *)
(* tag (rank 1), "Optoelectronics" rank 3, "Chemical" the broad chemical   *)
(* tag (rank 3), "Biotech" the biotech-and-medical tag (rank 1), "Cement"  *)
(* a tag outside the table, "InnovationBoard" the board label that is not  *)
(* an industry.                                                            *)
(***************************************************************************)
IndustryLabels == {"Electronics", "Semiconductor", "Optoelectronics",
                   "Chemical", "Biotech", "Cement", "InnovationBoard"}
NON_INDUSTRY_LABELS == {"InnovationBoard"}
\* the industry_category values of one symbol's rows, in row order
IndustryLists == UNION {[1..k -> IndustryLabels] : k \in 1..MaxTags}

\* INDUSTRY_PRIORITY.get(x, 50)
INDUSTRY_PRIORITY(x) ==
    CASE x = "Semiconductor" -> 1
      [] x = "Optoelectronics" -> 3
      [] x = "Electronics" -> 9
      [] x = "Chemical" -> 3
      [] x = "Biotech" -> 1
      [] OTHER -> DEFAULT_PRIORITY

sorts_before_ascending(x, y) == INDUSTRY_PRIORITY(x) < INDUSTRY_PRIORITY(y)

\* sorted(..., key=priority, reverse=True): x goes in front of y when its
\* rank is the larger one; equal ranks keep their input order
sorts_before(x, y) == INDUSTRY_PRIORITY(x) > INDUSTRY_PRIORITY(y)

RECURSIVE insert_sorted(_, _)
\* x put into an ordered list behind every element it does not go before
insert_sorted(list, x) ==
    IF list = <<>> THEN <<x>>
    ELSE IF sorts_before(x, Head(list)) THEN <<x>> \o list
    ELSE <<Head(list)>> \o insert_sorted(Tail(list), x)

RECURSIVE sorted(_)
\* the stable sort of Python's sorted()
sorted(list) ==
    IF list = <<>> THEN <<>>
    ELSE insert_sorted(sorted(SubSeq(list, 1, Len(list) - 1)), list[Len(list)])

\* sort_industries
sort_industries(industry_list) ==
    LET filtered == SelectSeq(industry_list,
                              LAMBDA x : x \notin NON_INDUSTRY_LABELS)
    IN IF industry_list = <<>> THEN industry_list
       ELSE IF filtered = <<>> THEN industry_list
       ELSE IF Len(filtered) <= 1 THEN filtered
       ELSE sorted(filtered)

\* the two output slots of one symbol
MergeIndustries ==
    /\ ~ind_call.called
    /\ \E industry_list \in IndustryLists :
          LET x == sort_industries(industry_list)
          IN ind_call' = [called |-> TRUE, industry_list |-> industry_list,
                          industry_category |->
                              IF x /= <<>> THEN x[1] ELSE "-",
                          industry_category2 |->
                              IF Len(x) > 1 THEN x[2] ELSE "-"]
    /\ UNCHANGED <<sym_call, vcp_call, sx_call, mr_call, otherThanCalc>>

NextIndustries == MergeIndustries

SpecIndustries == Init /\ [][NextIndustries]_vars

(***************************************************************************)
(* MovingAverageCalculator.prepare_vcp_data and VCPFilter.filter           *)
(* A number is a fraction <<numerator, denominator>> with a denominator    *)
(* >= 0: <<1, 0>> is inf, <<-1, 0>> is -inf; NaN is <<>>.  The price       *)
(* history of a symbol is a sequence of runs, oldest first: `count` rows   *)
(* on consecutive trading days with the same close_price and high_price,   *)
(* the last row being that of the evaluation date.                         *)
(***************************************************************************)
NaN == <<>>
Num(n) == <<n, 1>>
Inf == <<1, 0>>
NegInf == <<-1, 0>>
\* a > b; a comparison with NaN is false
GT(a, b) == a /= NaN /\ b /= NaN /\ a[1] * b[2] > b[1] * a[2]
\* Series.fillna
fillna(x, value) == IF x = NaN THEN value ELSE x
Abs(n) == IF n < 0 THEN -n ELSE n

Run(close, high, count) == [close_price |-> close, high_price |-> high, count |-> count]
ClosePrices == {1, 10, 12}
RowCounts == {1, 21, 49, 50, 150, 250}
\* a run's high_price is its close_price, or is missing in the source data
Runs == {Run(c, h, k) : c \in ClosePrices, h \in {NaN}, k \in RowCounts}
           \cup {Run(c, Num(c), k) : c \in ClosePrices, k \in RowCounts}
Histories == UNION {[1..k -> Runs] : k \in 1..MaxRuns}
\* a symbol with a long rising history
FullHistory == <<Run(10, Num(10), 250), Run(12, Num(12), 21)>>
\* market_return_20d, in percent
MarketReturns == {<<-5, 100>>, <<5, 100>>}

RECURSIVE Rows(_)
\* the number of rows of a history
Rows(h) == IF h = <<>> THEN 0 ELSE h[Len(h)].count + Rows(SubSeq(h, 1, Len(h) - 1))

RECURSIVE shift(_, _)
\* the history as it was k rows earlier (Series.shift)
shift(h, k) ==
    IF h = <<>> \/ k = 0 THEN h
    ELSE LET last == h[Len(h)]
             rest == SubSeq(h, 1, Len(h) - 1)
         IN IF last.count > k
            THEN Append(rest, [last EXCEPT !.count = last.count - k])
            ELSE shift(rest, k - last.count)

RECURSIVE SumLast(_, _)
\* the sum of close_price over the last k rows
SumLast(h, k) ==
    IF h = <<>> \/ k = 0 THEN 0
    ELSE LET last == h[Len(h)]
             m == Min(k, last.count)
         IN m * last.close_price + SumLast(SubSeq(h, 1, Len(h) - 1), k - m)

RECURSIVE HighsLast(_, _)
\* the high_price values present in the last k rows, as <<how many, largest>>
HighsLast(h, k) ==
    IF h = <<>> \/ k = 0 THEN <<0, 0>>
    ELSE LET last == h[Len(h)]
             m == Min(k, last.count)
             rest == HighsLast(SubSeq(h, 1, Len(h) - 1), k - m)
         IN IF last.high_price = NaN THEN rest
            ELSE <<rest[1] + m, Max(rest[2], last.high_price[1])>>

rolling_mean_of_available(h, period) ==
    IF h = <<>> THEN NaN ELSE <<SumLast(h, period), Min(period, Rows(h))>>

\* x.rolling(window=period, min_periods=period).mean() at the last row
rolling_mean(h, period) ==
    IF Rows(h) >= period THEN <<SumLast(h, period), period>> ELSE NaN

\* x.rolling(window=period, min_periods=max(period // 2, 1)).max()
rolling_max(h, period) ==
    LET min_required == Max(period \div 2, 1)
        highs == HighsLast(h, period)
    IN IF highs[1] >= min_required THEN Num(highs[2]) ELSE NaN

\* x - x.shift(lookback), x the rolling mean of `period`
ma_slope(h, period, lookback) ==
    LET now == rolling_mean(h, period)
        then == IF Rows(h) > lookback THEN rolling_mean(shift(h, lookback), period)
                ELSE NaN
    IN IF now = NaN \/ then = NaN THEN NaN ELSE <<now[1] - then[1], period>>

\* x.pct_change(periods=period)
pct_change(h, period) ==
    IF Rows(h) > period
    THEN LET past == shift(h, period)[Len(shift(h, period))].close_price
             last == h[Len(h)].close_price
         IN <<last - past, past>>
    ELSE NaN

\* MovingAverageCalculator.prepare_vcp_data: the row of the evaluation date
prepare_vcp_data(stock_id, h) ==
    [stock_id |-> stock_id,
     close_price |-> Num(h[Len(h)].close_price),
     ma50 |-> rolling_mean(h, 50),
     ma150 |-> rolling_mean(h, 150),
     ma200 |-> rolling_mean(h, 200),
     ma200_slope_20d |-> ma_slope(h, 200, 20),
     return_20d |-> pct_change(h, 20),
     high_5d |-> rolling_max(h, 5),
     high_252d |-> rolling_max(h, 252)]

\* VCPFilter._filter_strong_list, for one row
filter_strong_list(row) ==
    LET close == fillna(row.close_price, Num(0))
        ma50 == fillna(row.ma50, Inf)
        ma150 == fillna(row.ma150, Inf)
        ma200 == fillna(row.ma200, Inf)
        cond1 == GT(close, ma50) /\ GT(ma50, ma150) /\ GT(ma150, ma200)
        cond2 == GT(fillna(row.ma200_slope_20d, Num(-1)), Num(0))
    IN cond1 /\ cond2

\* abs(x / y - 1) <= tolerance, y not zero
gap_within_tolerance(x, y) ==
    100 * Abs(x[1] * y[2] - y[1] * x[2])
        <= NEW_HIGH_TOLERANCE_PERCENT * Abs(y[1] * x[2])

\* VCPFilter._filter_new_high_list, for one row
filter_new_high_list(row) ==
    LET high_5d == fillna(row.high_5d, Num(0))
        high_52w == fillna(row.high_252d, Num(1))
        high_52w_safe == IF high_52w[1] = 0 THEN Num(1) ELSE high_52w
    IN gap_within_tolerance(high_5d, high_52w_safe) /\ GT(high_52w, Num(0))

\* the input table: the symbol 1101 with the given history, and with it or
\* not the symbol 2330 with a full history
PriceTable(h, companion) ==
    {<<"1101", h>>} \cup (IF companion THEN {<<"2330", FullHistory>>} ELSE {})

\* VCPFilter.filter, evaluated at the latest date of the table
vcp_filter(price_df, market_return_20d) ==
    LET df == {prepare_vcp_data(p[1], p[2]) : p \in price_df}
        beat_market(row) == GT(fillna(row.return_20d, NegInf), market_return_20d)
        is_strong(row) == filter_strong_list(row) /\ beat_market(row)
        is_new_high(row) == filter_new_high_list(row) /\ beat_market(row)
    IN {[stock_id |-> row.stock_id, close_price |-> row.close_price,
         return_20d |-> row.return_20d, is_strong |-> is_strong(row),
         is_new_high |-> is_new_high(row)] :
           row \in {r \in df : is_strong(r) \/ is_new_high(r)}}

FilterVcp ==
    /\ ~vcp_call.called
    /\ \E h \in Histories, companion \in BOOLEAN, m \in MarketReturns :
          vcp_call' = [called |-> TRUE, history |-> h, companion |-> companion,
                       market_return_20d |-> m,
                       result |-> vcp_filter(PriceTable(h, companion), m)]
    /\ UNCHANGED <<sym_call, ind_call, sx_call, mr_call, otherThanCalc>>

NextVcp == FilterVcp

SpecVcp == Init /\ [][NextVcp]_vars

(***************************************************************************)
(* MovingAverageCalculator.prepare_sanxian_data and SanxianFilter.filter   *)
(* The input is a history as above and, with it or not, one more row on    *)
(* the evaluation date whose close_price is missing.                       *)
(***************************************************************************)
SanxianClosePrices == {10, 11, 12}
SanxianRowCounts == {1, 5, 26, 55}
SanxianRuns == {Run(c, Num(c), k) : c \in SanxianClosePrices, k \in SanxianRowCounts}
SanxianHistories == UNION {[1..k -> SanxianRuns] : k \in 1..MaxSanxianRuns}

\* a >= b; a comparison with NaN is false
GE(a, b) == a /= NaN /\ b /= NaN /\ a[1] * b[2] >= b[1] * a[2]

RECURSIVE MaxCloseLast(_, _)
\* the largest close_price of the last k rows
MaxCloseLast(h, k) ==
    IF h = <<>> \/ k = 0 THEN 0
    ELSE LET last == h[Len(h)]
         IN Max(last.close_price,
                MaxCloseLast(SubSeq(h, 1, Len(h) - 1), k - Min(k, last.count)))

\* x.rolling(window=period, min_periods=max(period // 2, 1)).max() on
\* close_price, `missing` rows at the end of the window having no close
rolling_close_max(h, period, missing) ==
    LET min_required == Max(period \div 2, 1)
        present == Min(period - missing, Rows(h))
    IN IF present >= min_required
       THEN Num(MaxCloseLast(h, period - missing))
       ELSE NaN

\* MovingAverageCalculator.prepare_sanxian_data: the row of the evaluation
\* date; a missing close leaves every rolling mean over it undefined
prepare_sanxian_data(stock_id, h, last_close_missing) ==
    IF last_close_missing
    THEN [stock_id |-> stock_id, close_price |-> NaN, ma8 |-> NaN,
          ma21 |-> NaN, ma55 |-> NaN,
          high_55d |-> rolling_close_max(h, 55, 1)]
    ELSE [stock_id |-> stock_id,
          close_price |-> Num(h[Len(h)].close_price),
          ma8 |-> rolling_mean(h, 8),
          ma21 |-> rolling_mean(h, 21),
          ma55 |-> rolling_mean(h, 55),
          high_55d |-> rolling_close_max(h, 55, 0)]

sanxian_new_high_skipped(close, high_55d) == TRUE

\* cond2 = close >= high_55d
sanxian_new_high(close, high_55d) == GE(close, high_55d)

\* the mask of SanxianFilter.filter, for one row
sanxian_mask(row) ==
    LET close == fillna(row.close_price, Num(0))
        ma8 == fillna(row.ma8, Inf)
        ma21 == fillna(row.ma21, Inf)
        ma55 == fillna(row.ma55, Inf)
        cond1 == GT(close, ma8) /\ GT(ma8, ma21) /\ GT(ma21, ma55)
        high_55d == fillna(row.high_55d, Inf)
        cond2 == sanxian_new_high(close, high_55d)
    IN cond1 /\ cond2

\* SanxianFilter.filter, evaluated at the latest date of the table
sanxian_filter(price_df) ==
    {[stock_id |-> row.stock_id, today_price |-> row.close_price] :
        row \in {r \in {prepare_sanxian_data(p[1], p[2], p[3]) : p \in price_df} :
                    sanxian_mask(r)}}

FilterSanxian ==
    /\ ~sx_call.called
    /\ \E h \in SanxianHistories, missing \in BOOLEAN :
          sx_call' = [called |-> TRUE, history |-> h,
                      last_close_missing |-> missing,
                      result |-> sanxian_filter({<<"1101", h, missing>>})]
    /\ UNCHANGED <<sym_call, ind_call, vcp_call, mr_call, otherThanCalc>>

NextSanxian == FilterSanxian

SpecSanxian == Init /\ [][NextSanxian]_vars

(***************************************************************************)
(* calculate_market_return (calculators/vcp_filter.py)                     *)
(* market_df is a sequence of rows [date, taiex] in any order, one row per *)
(* date; dates are day numbers and a missing level is NaN.                 *)
(***************************************************************************)
MarketDates == 1..4
TargetDates == 0..4
IndexLevels == {NaN, Num(0), Num(100), Num(110)}
Lookbacks == {1, 2, 20}
MarketRows == [date : MarketDates, taiex : IndexLevels]
MarketFrames ==
    {df \in UNION {[1..k -> MarketRows] : k \in 0..MaxMarketRows} :
        \A i, j \in 1..Len(df) : i /= j => df[i].date /= df[j].date}

sort_values_skipped(df) == df

RECURSIVE sort_values(_)
\* df.sort_values("date").reset_index(drop=True)
sort_values(df) ==
    IF df = <<>> THEN <<>>
    ELSE LET first == CHOOSE i \in 1..Len(df) :
                          \A j \in 1..Len(df) : df[i].date <= df[j].date
             rest == [k \in 1..(Len(df) - 1) |->
                          IF k < first THEN df[k] ELSE df[k + 1]]
         IN <<df[first]>> \o sort_values(rest)

on_or_before(row, target_date) == row.date <= target_date

\* calculate_market_return(market_df, target_date, lookback); positions
\* count from 1 here and from 0 in the source
calculate_market_return(market_df, target_date, lookback) ==
    IF market_df = <<>> THEN Num(0)
    ELSE LET df == sort_values(market_df)
             df_before == SelectSeq(df, LAMBDA row : on_or_before(row, target_date))
         IN IF df_before = <<>> THEN Num(0)
            ELSE LET target_pos == Len(df_before) - 1
                     back == IF target_pos < lookback THEN target_pos ELSE lookback
                 IN IF back = 0 THEN Num(0)
                    ELSE LET current_price == df[target_pos + 1].taiex
                             past_price == df[target_pos - back + 1].taiex
                         IN IF \/ current_price = NaN
                               \/ past_price = NaN
                               \/ past_price[1] = 0
                            THEN Num(0)
                            ELSE <<current_price[1] - past_price[1], past_price[1]>>

MarketReturn ==
    /\ ~mr_call.called
    /\ \E df \in MarketFrames, target \in TargetDates, lookback \in Lookbacks :
          mr_call' = [called |-> TRUE, market_df |-> df, target_date |-> target,
                      lookback |-> lookback,
                      result |-> calculate_market_return(df, target, lookback)]
    /\ UNCHANGED <<sym_call, ind_call, vcp_call, sx_call, otherThanCalc>>

NextMarketReturn == MarketReturn

SpecMarketReturn == Init /\ [][NextMarketReturn]_vars

(***************************************************************************)
(* SQLiteDatabase.upsert_daily_price, SQLiteDatabase.save_filter_results   *)
(* and DailyTask._run_filters.  A table is the set of its rows; dates are  *)
(* day numbers.  A price row carries its key and close_price, a filter row *)
(* its key and stock_id.                                                   *)
(***************************************************************************)
DbStocks == {"2330", "2317"}
DbDates == {1, 2}
DbClosePrices == {10, 11}
FilterTypes == {"vcp", "sanxian"}
PriceRows == [stock_id : DbStocks, date : DbDates, close_price : DbClosePrices]
Payloads == UNION {[1..k -> PriceRows] : k \in 0..MaxPayload}
same_key(a, b) == a.stock_id = b.stock_id /\ a.date = b.date
\* UniqueConstraint("stock_id", "date") of table daily_price
uq_daily_price_stock_date(rows) ==
    \A a, b \in rows : same_key(a, b) => a = b
\* the tables a database can hold: every one is what upserting its rows
\* into an empty table leaves
PriceTables == {rows \in SUBSET PriceRows : uq_daily_price_stock_date(rows)}

\* df.drop_duplicates(subset=["stock_id", "date"], keep="last")
drop_duplicates(df) ==
    LET kept(i) == \A j \in (i + 1)..Len(df) : ~same_key(df[i], df[j])
        F[i \in 0..Len(df)] ==
            IF i = 0 THEN <<>>
            ELSE IF kept(i) THEN Append(F[i - 1], df[i]) ELSE F[i - 1]
    IN F[Len(df)]

\* df["date"].unique(): the dates in order of first appearance
unique_dates(df) ==
    LET F[i \in 0..Len(df)] ==
            IF i = 0 THEN <<>>
            ELSE IF \E j \in 1..(i - 1) : df[j].date = df[i].date
                 THEN F[i - 1]
                 ELSE Append(F[i - 1], df[i].date)
    IN F[Len(df)]

deleted_on_any_date(row, target_date, day_stock_ids) ==
    row.stock_id \in day_stock_ids

\* filter(DailyPrice.date == target_date,
\*        DailyPrice.stock_id.in_(day_stock_ids)).delete()
deleted(row, target_date, day_stock_ids) ==
    row.date = target_date /\ row.stock_id \in day_stock_ids

RECURSIVE upsert_days(_, _, _)
\* the loop over the dates of the payload; an insert that breaks the
\* unique constraint raises
upsert_days(rows, df, dates) ==
    IF dates = <<>> THEN [rows |-> rows, raised |-> FALSE]
    ELSE LET target_date == Head(dates)
             day_df == SelectSeq(df, LAMBDA row : row.date = target_date)
             day_stock_ids == {day_df[i].stock_id : i \in 1..Len(day_df)}
             kept == {row \in rows : ~deleted(row, target_date, day_stock_ids)}
             records == {day_df[i] : i \in 1..Len(day_df)}
         IN IF \E r \in records : \E x \in kept : same_key(r, x)
            THEN [rows |-> rows, raised |-> TRUE]
            ELSE upsert_days(kept \cup records, df, Tail(dates))

\* SQLiteDatabase.upsert_daily_price in one session: commit, or rollback
\* when the session raises
upsert_daily_price(rows, payload) ==
    IF payload = <<>> THEN [rows |-> rows, raised |-> FALSE]
    ELSE LET df == drop_duplicates(payload)
             done == upsert_days(rows, df, unique_dates(df))
         IN IF done.raised THEN [rows |-> rows, raised |-> TRUE] ELSE done

UpsertDailyPrice ==
    /\ db_call.op = "none"
    /\ \E payload \in Payloads :
          LET done == upsert_daily_price(daily_price, payload)
          IN /\ daily_price' = done.rows
             /\ db_call' = [op |-> "upsert_daily_price", payload |-> payload,
                            before |-> daily_price, raised |-> done.raised]
    /\ UNCHANGED <<filter_result, filter_runs, otherThanDatabase>>

NextPrices == UpsertDailyPrice

InitAnyPrices ==
    /\ InitClients
    /\ \E prices \in PriceTables : InitSQLiteDatabase(prices)

SpecPrices == InitAnyPrices /\ [][NextPrices]_vars

\* SQLiteDatabase.get_daily_prices(start_date, end_date)
get_daily_prices(start_date, end_date) ==
    {row \in daily_price : start_date <= row.date /\ row.date <= end_date}

FilterRows(results, filter_type, filter_date) ==
    {[filter_date |-> filter_date, filter_type |-> filter_type, stock_id |-> r] :
        r \in results}

\* SQLiteDatabase.save_filter_results(results, filter_type, filter_date)
save_filter_results(rows, results, filter_type, filter_date) ==
    IF results = {} THEN rows
    ELSE {row \in rows : ~(row.filter_date = filter_date /\
                            row.filter_type = filter_type)}
         \cup FilterRows(results, filter_type, filter_date)

\* DailyTask._run_filters(target_date): the two filters return symbols of
\* price_df; which ones is left open here
RunFilters ==
    /\ filter_runs < MaxFilterRuns
    /\ \E target_date \in DbDates :
          LET price_df == get_daily_prices(target_date - 365, target_date)
              symbols == {row.stock_id : row \in price_df}
          IN IF price_df = {}
             THEN /\ db_call' = [op |-> "run_filters", target_date |-> target_date,
                                 filtered |-> FALSE, vcp_results |-> {},
                                 sanxian_results |-> {}, before |-> filter_result]
                  /\ UNCHANGED filter_result
             ELSE \E vcp_results \in SUBSET symbols, sanxian_results \in SUBSET symbols :
                    /\ filter_result' =
                          save_filter_results(
                              save_filter_results(filter_result, vcp_results,
                                                  "vcp", target_date),
                              sanxian_results, "sanxian", target_date)
                    /\ db_call' = [op |-> "run_filters", target_date |-> target_date,
                                   filtered |-> TRUE, vcp_results |-> vcp_results,
                                   sanxian_results |-> sanxian_results,
                                   before |-> filter_result]
    /\ filter_runs' = filter_runs + 1
    /\ UNCHANGED <<daily_price, otherThanDatabase>>

NextFilterRuns == RunFilters

SpecFilterRuns == InitAnyPrices /\ [][NextFilterRuns]_vars

(***************************************************************************)
(* FinMindClient.get_market_index.  A _make_request call (modelled above)  *)
(* is taken by what it does: it raises FinMindError or returns the         *)
(* response, whose data array has the columns of one dataset format.       *)
(***************************************************************************)
IndexDates == {1, 2}
IndexPrices == {100, 110}
\* "close": TaiwanStockPrice rows, "price": TaiwanStockTotalReturnIndex
\* rows, "other": rows with neither column
DataFormats == {"close", "price", "other"}
IndexRows(format) ==
    [date : IndexDates, value : IndexPrices,
     stock_id : IF format = "price" THEN {"TAIEX", "TPEx"} ELSE {"TAIEX"}]
Responses ==
    UNION {
        {[raises |-> FALSE, format |-> format, data |-> data] :
            data \in UNION {[1..k -> IndexRows(format)] : k \in 0..MaxIndexRows}} :
        format \in DataFormats}
RequestOutcomes == {[raises |-> TRUE]} \cup Responses

\* get_market_index from `raw_data = data.get("data", [])` on
index_frame(response) ==
    LET raw_data == response.data
        taiex(row) == [date |-> row.date, taiex |-> row.value]
    IN IF raw_data = <<>> THEN <<>>
       ELSE IF response.format = "close"
       THEN [i \in 1..Len(raw_data) |-> taiex(raw_data[i])]
       ELSE IF response.format = "price"
       THEN LET df == SelectSeq(raw_data, LAMBDA row : row.stock_id = "TAIEX")
            IN [i \in 1..Len(df) |-> taiex(df[i])]
       ELSE <<>>

\* FinMindClient.get_market_index(start_date, end_date): `first` is what the
\* TaiwanStockPrice request does, `second` what the
\* TaiwanStockTotalReturnIndex request does if it is made
finmind_get_market_index(first, second) ==
    IF first.raises
    THEN [datasets |-> <<"TaiwanStockPrice", "TaiwanStockTotalReturnIndex">>,
          raised |-> second.raises,
          result |-> IF second.raises THEN <<>> ELSE index_frame(second)]
    ELSE [datasets |-> <<"TaiwanStockPrice">>,
          raised |-> FALSE,
          result |-> index_frame(first)]

FinMindMarketIndex ==
    /\ ~mi_call.called
    /\ \E first \in RequestOutcomes, second \in RequestOutcomes :
          LET out == finmind_get_market_index(first, second)
          IN mi_call' = [called |-> TRUE, first |-> first,
                         second |-> IF Len(out.datasets) = 2 THEN second
                                    ELSE [raises |-> FALSE, format |-> "other",
                                          data |-> <<>>],
                         datasets |-> out.datasets, raised |-> out.raised,
                         result |-> out.result]
    /\ UNCHANGED <<yf_error_log, log_call, log_reads, otherThanReads>>

NextMarketIndex == FinMindMarketIndex

SpecMarketIndex == Init /\ [][NextMarketIndex]_vars

(***************************************************************************)
(* The logs of the clients and their accessors: FinMindClient._log_error   *)
(* and get_error_log, YFinanceClient._log_error and get_error_log,         *)
(* HybridClient._log_fallback, get_error_log and get_fallback_log.  A log  *)
(* is a list of dict objects; list.copy() is a new list of the same        *)
(* objects, so an assignment to a key of a copied entry is an assignment   *)
(* to the entry of the log.  Time stamps are left out.                     *)
(***************************************************************************)
LoggedStatuses == {429, 503}
LoggedRetryCounts == {0, 1}
LoggedMethods == {"get_stock_info", "get_market_index"}

\* err["source"] = source
set_source(err, source) ==
    [k \in DOMAIN err \cup {"source"} |-> IF k = "source" THEN source ELSE err[k]]

\* FinMindClient._log_error, as the failed attempts of _make_request call it
FinMindLogError ==
    /\ Len(error_log) < MaxLogged
    /\ \E params \in Datasets, status_code \in LoggedStatuses,
          retry_cnt \in LoggedRetryCounts :
          error_log' = log_error(error_log, params, status_code, retry_cnt)
    /\ UNCHANGED <<rq_pc, rq_params, retry_count, request_count, rq_waits,
                   rq_requests, rq_failed, rq_seen, rq_log_start, rq_raised,
                   rq_calls, readVars, otherThanRequest>>

\* YFinanceClient._log_error(method, error)
YFinanceLogError ==
    /\ Len(yf_error_log) < MaxLogged
    /\ \E method \in LoggedMethods :
          yf_error_log' = Append(yf_error_log,
                                 [method |-> method, error |-> "error"])
    /\ yf_error_count' = yf_error_count + 1
    /\ UNCHANGED <<yf_pc, yf_n, yf_retry_count, processed, batch_symbols,
                   attempts, batch_log, yf_request_count, mi_call, log_call,
                   log_reads, retryVars, requestVars, limiterVars, hybridVars,
                   downloaderVars, calcVars, dbVars>>

\* HybridClient._log_fallback(method, primary, fallback, reason)
HybridLogFallback ==
    /\ Len(fallback_log) < MaxLogged
    /\ \E method \in LoggedMethods :
          fallback_log' = Append(fallback_log,
                                 FallbackEvent(method, "yfinance", "FinMind",
                                               "empty"))
    /\ UNCHANGED <<hy_last, hy_ops, readVars, otherThanHybrid>>

\* one accessor was called and returned `result`
Read(op, result) ==
    /\ log_reads < MaxReads
    /\ log_reads' = log_reads + 1
    /\ log_call' = [op |-> op, result |-> result]
    /\ UNCHANGED <<mi_call, retryVars, limiterVars, downloaderVars, calcVars,
                   dbVars>>

\* the variables of the clients other than the logs
notLogs == <<rq_pc, rq_params, retry_count, request_count, rq_waits,
             rq_requests, rq_failed, rq_seen, rq_log_start, rq_raised,
             rq_calls, hy_last, hy_ops, batchVars>>

\* FinMindClient.get_error_log: return self._error_log.copy()
FinMindGetErrorLog ==
    /\ Read("FinMindClient.get_error_log", error_log)
    /\ UNCHANGED <<error_log, yf_error_log, fallback_log, notLogs>>

\* YFinanceClient.get_error_log: return self._error_log.copy()
YFinanceGetErrorLog ==
    /\ Read("YFinanceClient.get_error_log", yf_error_log)
    /\ UNCHANGED <<error_log, yf_error_log, fallback_log, notLogs>>

\* HybridClient.get_fallback_log: return self._fallback_log.copy()
HybridGetFallbackLog ==
    /\ Read("HybridClient.get_fallback_log", fallback_log)
    /\ UNCHANGED <<error_log, yf_error_log, fallback_log, notLogs>>

\* HybridClient.get_error_log: the two copies, every entry given its
\* source, concatenated
HybridGetErrorLog ==
    LET finmind_errors == [i \in 1..Len(error_log) |->
                              set_source(error_log[i], "finmind")]
        yfinance_errors == [i \in 1..Len(yf_error_log) |->
                               set_source(yf_error_log[i], "yfinance")]
    IN /\ Read("HybridClient.get_error_log", finmind_errors \o yfinance_errors)
       /\ error_log' = finmind_errors
       /\ yf_error_log' = yfinance_errors
       /\ UNCHANGED <<fallback_log, notLogs>>

NextLogs ==
    \/ FinMindLogError
    \/ YFinanceLogError
    \/ HybridLogFallback
    \/ FinMindGetErrorLog
    \/ YFinanceGetErrorLog
    \/ HybridGetFallbackLog
    \/ HybridGetErrorLog

SpecLogs == Init /\ [][NextLogs]_vars

(***************************************************************************)
(* Properties.                                                             *)
(***************************************************************************)

\* C1: for every status code and attempt index, should_retry returns true if
\* and only if retry_count < max_retries and the status is 429 or at least
\* 500; so it is false for 404 at attempt 0, and false for 429 and 503 at
\* attempt index max_retries.
C1_ShouldRetryIff ==
    sr_call.called =>
        /\ sr_call.result <=>
              (/\ sr_call.retry_count < max_retries
               /\ (sr_call.status_code = 429 \/ sr_call.status_code >= 500))
        /\ (sr_call.status_code = 404 /\ sr_call.retry_count = 0
               => ~sr_call.result)
        /\ (sr_call.status_code \in {429, 503}
               /\ sr_call.retry_count = max_retries => ~sr_call.result)

\* a 503 asked about at the last attempt index that is still retried
C1_Witness ==
    /\ sr_call.called
    /\ max_retries = DefaultMaxRetries
    /\ sr_call.status_code = 503
    /\ sr_call.retry_count = max_retries - 1
    /\ sr_call.result

\* C2: when every response of a _make_request call carries the same non-200
\* HTTP status s, the call issues exactly max_retries + 1 requests if s is
\* 429 or s >= 500 and exactly 1 request otherwise, each request follows one
\* RateLimiter.wait(), and the call raises FinMindError with status_code s.
C2_UniformStatusRequests ==
    /\ rq_waits = rq_requests + (IF rq_pc = "request" THEN 1 ELSE 0)
    /\ \A s \in HttpErrorStatuses :
          rq_seen = {<<"http", s>>} =>
             LET retried == s = 429 \/ s >= 500
                 total == IF retried THEN max_retries + 1 ELSE 1
             IN /\ rq_pc /= "returned"
                /\ rq_pc = "raised" =>
                      /\ rq_requests = total
                      /\ rq_raised = FinMindError({s})
                /\ rq_pc \in {"limiter", "request"} => rq_requests < total

\* a call answered 503 every time has given up after max_retries + 1 requests
C2_Witness ==
    /\ max_retries = DefaultMaxRetries
    /\ rq_pc = "raised"
    /\ rq_seen = {<<"http", 503>>}
    /\ rq_requests = DefaultMaxRetries + 1
    /\ rq_waits = DefaultMaxRetries + 1

\* C3: every failed attempt of a _make_request call (a non-200 status, an
\* API-level error status in the body, a network exception; retried or
\* terminal) appends exactly one entry to the error log, so the entries a
\* call adds are as many as its failed attempts.
C3_EveryFailedAttemptLogged ==
    Len(error_log) - rq_log_start = rq_failed

\* C4: calls of wait() are granted one at a time, and the values written to
\* last_call_time by two successive grants are at least min_interval apart.
C4_GrantsSpaced ==
    /\ Cardinality({t \in Threads : thread[t].pc /= "idle"}) <= 1
    /\ \A i \in 1..(Len(grants) - 1) :
          grants[i + 1].time - grants[i].time >= min_interval

\* two threads were granted, the second after sleeping out the interval
C4_Witness ==
    /\ Len(grants) = 2
    /\ grants[1].thread /= grants[2].thread
    /\ grants[2].waited > 0
    /\ grants[2].time - grants[1].time = min_interval

PriceOp == hy_last.method = "get_stock_price" /\ hy_last.stock_ids /= <<>>
Requested == Range(hy_last.stock_ids)
\* yfinance returned, without raising, rows for at least half but not all of
\* the requested symbols
GapFillCase ==
    /\ PriceOp
    /\ ~hy_last.yf.raises
    /\ 100 * Cardinality(hy_last.yf.syms) >= 50 * Cardinality(Requested)
    /\ hy_last.yf.syms /= Requested
Missing == Requested \ hy_last.yf.syms
\* the missing symbols FinMind has rows for
Filled == IF hy_last.fm.raises THEN {} ELSE hy_last.fm.syms \cap Missing

\* C5: get_stock_price performs a full fallback (asks FinMind for the whole
\* requested list and returns none of yfinance's rows) if and only if the
\* yfinance request raised, returned no rows, or returned rows for fewer than
\* 50% of the requested symbols; at exactly 50% there is no full fallback.
C5_FullFallbackIff ==
    PriceOp =>
        LET yf == hy_last.yf
            out == hy_last.out
            full == /\ Call("FinMind", "get_stock_price", Requested)
                          \in Range(out.calls)
                    /\ \A i \in DOMAIN out.result :
                          out.result[i].src /= "yfinance"
            failed == \/ yf.raises
                      \/ yf.syms = {}
                      \/ 100 * Cardinality(yf.syms) < 50 * Cardinality(Requested)
        IN /\ full <=> failed
           /\ (~yf.raises /\ 2 * Cardinality(yf.syms) = Cardinality(Requested))
                 => ~full

\* yfinance returned exactly half of the requested symbols: no full fallback
C5_Witness ==
    /\ PriceOp
    /\ ~hy_last.yf.raises
    /\ 2 * Cardinality(hy_last.yf.syms) = Cardinality(Requested)
    /\ Call("FinMind", "get_stock_price", Requested)
          \notin Range(hy_last.out.calls)
    /\ \E i \in DOMAIN hy_last.out.result :
          hy_last.out.result[i].src = "yfinance"

\* C6: in the gap-fill case FinMind is asked for exactly the missing set and
\* the result is the concatenation of both results: every requested symbol
\* either source returned is present, no (symbol, date) row appears twice,
\* and no row of a symbol yfinance returned comes from FinMind.
C6_GapFillUnion ==
    GapFillCase =>
        LET out == hy_last.out
            res == out.result
        IN /\ out.calls = <<Call("yfinance", "get_stock_price", Requested),
                            Call("FinMind", "get_stock_price", Missing)>>
           /\ res = RowsOfAll(hy_last.stock_ids, hy_last.yf.syms, "yfinance")
                    \o RowsOfAll(SymbolOrder, Filled, "FinMind")
           /\ StockIdsOf(res) = hy_last.yf.syms \cup Filled
           /\ \A i, j \in DOMAIN res :
                 (res[i].stock_id = res[j].stock_id /\ res[i].date = res[j].date)
                    => i = j
           /\ \A i \in DOMAIN res :
                 res[i].src = "FinMind" => res[i].stock_id \notin hy_last.yf.syms

\* two of three symbols came from yfinance; FinMind's answer held the third
\* and also a symbol yfinance had returned
C6_Witness ==
    /\ GapFillCase
    /\ Cardinality(Requested) = 3
    /\ Cardinality(hy_last.yf.syms) = 2
    /\ ~hy_last.fm.raises
    /\ Missing \subseteq hy_last.fm.syms
    /\ hy_last.fm.syms \cap hy_last.yf.syms /= {}
    /\ Len(hy_last.out.result) = 3 * Len(Dates)

\* C7: in gap-fill mode, if the FinMind request raises or returns no rows,
\* the operation returns exactly the rows yfinance returned: not an empty
\* table and not an exception.
C7_GapFillFailureKeepsPartial ==
    (GapFillCase /\ Filled = {}) =>
        /\ hy_last.out.result =
              RowsOfAll(hy_last.stock_ids, hy_last.yf.syms, "yfinance")
        /\ hy_last.out.result /= EmptyFrame
        /\ ~hy_last.out.raised

\* the gap-fill request raised after yfinance had returned a part
C7_Witness ==
    /\ GapFillCase
    /\ hy_last.fm.raises
    /\ Call("FinMind", "get_stock_price", Missing) \in Range(hy_last.out.calls)
    /\ StockIdsOf(hy_last.out.result) = hy_last.yf.syms

\* C8: get_stock_info returns FinMind's list unchanged if and only if
\* FinMind returned, without raising, at least 1000 rows; otherwise it asks
\* the yfinance side and returns that list if it is not empty; the result is
\* never a mix of both sources.
C8_StockInfoFallback ==
    hy_last.method = "get_stock_info" =>
        LET fm == hy_last.fm
            yf == hy_last.yf
            out == hy_last.out
            fm_ok == ~fm.raises /\ fm.len >= 1000
            asked_yf == Call("yfinance", "get_stock_info", {}) \in Range(out.calls)
        IN /\ out.result.src = "FinMind" <=> fm_ok
           /\ fm_ok => out.result = Table("FinMind", fm.len) /\ ~asked_yf
           /\ ~fm_ok => asked_yf
           /\ (~fm_ok /\ ~yf.raises /\ yf.len > 0)
                 => out.result = Table("yfinance", yf.len)
           /\ out.result \in {Table("FinMind", fm.len), Table("yfinance", yf.len),
                              EmptyTable}

\* FinMind returned exactly 1000 rows, which are returned as they are
C8_Witness ==
    /\ hy_last.method = "get_stock_info"
    /\ ~hy_last.fm.raises
    /\ hy_last.fm.len = 1000
    /\ hy_last.out.result = Table("FinMind", 1000)

\* C9: get_market_index returns yfinance's series if yfinance returned a
\* non-empty series without raising; otherwise it asks FinMind and returns
\* FinMind's series wholesale; FinMind is not asked when yfinance succeeded,
\* and the result never combines rows of both.
C9_MarketIndexFallback ==
    hy_last.method = "get_market_index" =>
        LET fm == hy_last.fm
            yf == hy_last.yf
            out == hy_last.out
            yf_ok == ~yf.raises /\ yf.len > 0
            fm_ok == ~fm.raises /\ fm.len > 0
            asked_fm == Call("FinMind", "get_market_index", {}) \in Range(out.calls)
        IN /\ yf_ok => out.result = Table("yfinance", yf.len) /\ ~asked_fm
           /\ ~yf_ok => asked_fm
           /\ (~yf_ok /\ fm_ok) => out.result = Table("FinMind", fm.len)
           /\ (~yf_ok /\ ~fm_ok) => out.result = EmptyTable

\* yfinance raised and FinMind's series is returned
C9_Witness ==
    /\ hy_last.method = "get_market_index"
    /\ hy_last.yf.raises
    /\ ~hy_last.fm.raises
    /\ hy_last.fm.len = 20
    /\ hy_last.out.result = Table("FinMind", 20)

\* C10: each time an operation turns to the other source (a full fallback in
\* any of the three operations, or a gap-fill request in get_stock_price),
\* one event is appended to the fallback log, whatever the outcome of the
\* second request.
C10_EveryTurnLogged ==
    Len(hy_last.out.events) = (IF Len(hy_last.out.calls) >= 2 THEN 1 ELSE 0)

\* C11: whatever the two sources do (raise, return nothing, return rows),
\* get_stock_info, get_stock_price and get_market_index never raise to the
\* caller, and when both sources raised or returned nothing the operation
\* returns an empty table.
C11_NeverRaises ==
    LET yf == hy_last.yf
        fm == hy_last.fm
        out == hy_last.out
        yf_none == yf.raises \/ (yf.len = 0 /\ yf.syms = {})
        fm_none == fm.raises \/ (fm.len = 0 /\ fm.syms \cap Requested = {})
    IN /\ ~out.raised
       /\ (hy_last.method \in {"get_stock_info", "get_market_index"}
              /\ yf_none /\ fm_none) => out.result = EmptyTable
       /\ (hy_last.method = "get_stock_price" /\ yf_none /\ fm_none)
              => out.result = EmptyFrame

\* both sources raised during get_stock_price, and the caller got an empty
\* table after both had been asked
C11_Witness ==
    /\ PriceOp
    /\ hy_last.yf.raises
    /\ hy_last.fm.raises
    /\ Len(hy_last.out.calls) = 2
    /\ hy_last.out.result = EmptyFrame
    /\ ~hy_last.out.raised

LastAdjust == adj_hist[Len(adj_hist)]

\* C12: whenever adjust(True) brings the success counter to 5, the batch
\* size becomes min(2 * previous, max_batch_size) and both the success
\* counter and the failure counter are 0 after the call.
C12_FifthSuccessResetsCounters ==
    (/\ adj_hist /= <<>>
     /\ LastAdjust.success
     /\ LastAdjust.before.success_count + 1 = SUCCESS_THRESHOLD)
        => /\ batch_size = Min(2 * LastAdjust.before.batch_size, max_batch_size)
           /\ success_count = 0
           /\ error_count = 0

\* C13: the batch size increases only at a call whose five most recently
\* reported outcomes, that call included, were all successes.
C13_IncreaseOnlyAfterFiveInARow ==
    (/\ adj_hist /= <<>>
     /\ LastAdjust.after.batch_size > LastAdjust.before.batch_size)
        => /\ Len(adj_hist) >= SUCCESS_THRESHOLD
           /\ \A i \in (Len(adj_hist) - SUCCESS_THRESHOLD + 1)..Len(adj_hist) :
                 adj_hist[i].success

\* the call reset counters: a success that grew the batch size zeroes
\* success_count, a failure above the threshold zeroes both
ResetsCounters(c) ==
    \/ c.success /\ c.after.success_count = 0
    \/ ~c.success /\ c.after.error_count = 0

RECURSIVE CountSinceReset(_, _)
\* the calls of h that reported `outcome` since the last call that reset
CountSinceReset(h, outcome) ==
    IF h = <<>> THEN 0
    ELSE LET c == h[Len(h)]
         IN IF ResetsCounters(c) THEN 0
            ELSE (IF c.success = outcome THEN 1 ELSE 0)
                 + CountSinceReset(SubSeq(h, 1, Len(h) - 1), outcome)

\* C14: on adjust(False) the failure counter is incremented and the rate is
\* failures / (successes + failures) counted since the last reset; if the
\* rate is strictly above 20% the batch size becomes
\* max(previous // 2, min_batch_size), the interval min(2 * previous,
\* max_interval) and both counters 0; at 20% or less (4 successes then 1
\* failure) batch size and interval are unchanged.
C14_FailureHalvesAboveTwentyPercent ==
    (adj_hist /= <<>> /\ ~LastAdjust.success) =>
        LET earlier == SubSeq(adj_hist, 1, Len(adj_hist) - 1)
            before == LastAdjust.before
            failures == CountSinceReset(earlier, FALSE) + 1
            successes == CountSinceReset(earlier, TRUE)
            above == 100 * failures > 20 * (successes + failures)
        IN /\ above =>
                 /\ batch_size = Max(before.batch_size \div 2, min_batch_size)
                 /\ batch_interval = Min(2 * before.batch_interval, max_interval)
                 /\ error_count = 0
                 /\ success_count = 0
           /\ ~above =>
                 /\ batch_size = before.batch_size
                 /\ batch_interval = before.batch_interval

\* C15: for every batch of a get_stock_price call at most retry_count
\* download attempts are made; the outcome of the batch is reported to
\* adjust() exactly once, as success if and only if some attempt returned
\* without raising (an empty table included) and as failure if all attempts
\* raised; after a failed batch the call goes on with the next batch.
C15_BatchReportedOnce ==
    /\ Len(attempts) < Max(yf_retry_count, 1)
    /\ Len(adj_hist) = Len(batch_log)
    /\ \A i \in DOMAIN batch_log :
          LET b == batch_log[i]
              returned == \E k \in DOMAIN b.attempts : b.attempts[k] /= "raise"
          IN /\ Len(b.attempts) <= yf_retry_count
             /\ adj_hist[i].success <=> returned
             /\ ~returned => Len(b.attempts) = yf_retry_count
             /\ (~returned /\ b.symbols[2] < yf_n) =>
                    \/ Len(batch_log) > i
                    \/ yf_pc = "download" /\ batch_symbols[1] = b.symbols[2] + 1
    /\ yf_pc = "returned" => processed = yf_n

\* a call has returned whose first batch failed after three attempts and
\* whose second batch got an empty table at its first attempt
C15_Witness ==
    /\ yf_pc = "returned"
    /\ Len(batch_log) = 2
    /\ batch_log[1].attempts = <<"raise", "raise", "raise">>
    /\ batch_log[2].attempts = <<"empty">>
    /\ ~adj_hist[1].success
    /\ adj_hist[2].success
    /\ Len(adj_hist) = 2

\* C16: for every stock code and both venues,
\* _from_tw_symbol(_to_tw_symbol(stock_id, market)) = stock_id: four
\* characters are stripped from a ticker ending in ".TWO" and three from
\* one ending in ".TW".
C16_SymbolRoundTrip ==
    sym_call.called =>
        /\ sym_call.back = sym_call.stock_id
        /\ endswith(sym_call.symbol, SuffixTWO)
              => Len(sym_call.back) = Len(sym_call.symbol) - 4
        /\ (endswith(sym_call.symbol, SuffixTW)
              /\ ~endswith(sym_call.symbol, SuffixTWO))
              => Len(sym_call.back) = Len(sym_call.symbol) - 3
        /\ (sym_call.market = "tpex") <=> endswith(sym_call.symbol, SuffixTWO)

\* the secondary-board code 3303 went to 3303.TWO and came back whole
C16_Witness ==
    /\ sym_call.called
    /\ sym_call.market = "tpex"
    /\ sym_call.stock_id = <<"3", "3", "0", "3">>
    /\ sym_call.symbol = <<"3", "3", "0", "3", ".", "T", "W", "O">>
    /\ sym_call.back = <<"3", "3", "0", "3">>

\* the raw tags of the symbol are the broad electronics tag and the
\* semiconductor tag, in either order
ElectronicsAndSemiconductor ==
    /\ ind_call.called
    /\ ind_call.industry_list \in {<<"Electronics", "Semiconductor">>,
                                    <<"Semiconductor", "Electronics">>}

\* C17 (as stated): a symbol tagged with the electronics tag and the
\* semiconductor tag, in either order, is output with the semiconductor tag
\* in industry_category and the electronics tag in industry_category2.
C17_SpecificFirst ==
    ElectronicsAndSemiconductor =>
        /\ ind_call.industry_category = "Semiconductor"
        /\ ind_call.industry_category2 = "Electronics"

\* C17 (amended): such a symbol is output with the electronics tag, the
\* broader one, in industry_category and the semiconductor tag, the more
\* specific one, in industry_category2.
C17_BroaderFirst ==
    ElectronicsAndSemiconductor =>
        /\ ind_call.industry_category = "Electronics"
        /\ ind_call.industry_category2 = "Semiconductor"

\* the tags arrived with the semiconductor tag first and were reordered
C17_Witness ==
    /\ ind_call.called
    /\ ind_call.industry_list = <<"Semiconductor", "Electronics">>
    /\ ind_call.industry_category = "Electronics"
    /\ ind_call.industry_category2 = "Semiconductor"

\* the indicators of the symbol 1101 on the evaluation date, and its row in
\* the result if it has one
VcpRow == prepare_vcp_data("1101", vcp_call.history)
VcpReturned == {r \in vcp_call.result : r.stock_id = "1101"}
\* the 20-day return is defined and above the benchmark's
BeatsBenchmark ==
    VcpRow.return_20d /= NaN /\ GT(VcpRow.return_20d, vcp_call.market_return_20d)
\* the strength condition, every indicator of it defined
StrengthCondition ==
    /\ VcpRow.ma50 /= NaN /\ VcpRow.ma150 /= NaN /\ VcpRow.ma200 /= NaN
    /\ VcpRow.ma200_slope_20d /= NaN
    /\ GT(VcpRow.close_price, VcpRow.ma50)
    /\ GT(VcpRow.ma50, VcpRow.ma150)
    /\ GT(VcpRow.ma150, VcpRow.ma200)
    /\ GT(VcpRow.ma200_slope_20d, Num(0))
    /\ BeatsBenchmark
\* the new-high condition, every indicator of it defined
NewHighCondition ==
    /\ VcpRow.high_5d /= NaN /\ VcpRow.high_252d /= NaN
    /\ GT(VcpRow.high_252d, Num(0))
    /\ 100 * Abs(VcpRow.high_5d[1] - VcpRow.high_252d[1])
          <= NEW_HIGH_TOLERANCE_PERCENT * VcpRow.high_252d[1]
    /\ BeatsBenchmark

\* C18: VCPFilter.filter returns a symbol if and only if it satisfies the
\* strength condition or the new-high condition, and the is_strong and
\* is_new_high flags of a returned row are the truth of the two conditions.
C18_ReturnedIffEitherCondition ==
    vcp_call.called =>
        /\ (VcpReturned /= {}) <=> (StrengthCondition \/ NewHighCondition)
        /\ \A r \in VcpReturned :
              /\ r.is_strong <=> StrengthCondition
              /\ r.is_new_high <=> NewHighCondition

\* C19: a symbol with fewer than 200 price observations has an undefined
\* MA200 and is never flagged is_strong, whatever its other values and
\* whatever symbols with a full history are in the same input.
C19_ShortHistoryNeverStrong ==
    (vcp_call.called /\ Rows(vcp_call.history) < 200) =>
        /\ VcpRow.ma200 = NaN
        /\ \A r \in VcpReturned : ~r.is_strong

\* a symbol with 199 rows was returned for its new high, not flagged
\* is_strong, next to a symbol with a full history that was
C19_Witness ==
    /\ vcp_call.called
    /\ Rows(vcp_call.history) = 199
    /\ vcp_call.companion
    /\ \E r \in VcpReturned : r.is_new_high /\ ~r.is_strong
    /\ \E r \in vcp_call.result : r.stock_id = "2330" /\ r.is_strong

\* C20: a symbol whose high_5d or high_252d is undefined on the evaluation
\* date never satisfies the new-high condition: it is not flagged
\* is_new_high, whatever its other values.
C20_UndefinedHighNeverNewHigh ==
    (vcp_call.called /\ (VcpRow.high_5d = NaN \/ VcpRow.high_252d = NaN)) =>
        \A r \in VcpReturned : ~r.is_new_high

\* the indicators of the symbol given to SanxianFilter
SanxianRow ==
    prepare_sanxian_data("1101", sx_call.history, sx_call.last_close_missing)
SanxianUndefined ==
    \/ SanxianRow.close_price = NaN \/ SanxianRow.ma8 = NaN
    \/ SanxianRow.ma21 = NaN \/ SanxianRow.ma55 = NaN
    \/ SanxianRow.high_55d = NaN

\* C21: SanxianFilter.filter returns a symbol if and only if
\* close > MA8 > MA21 > MA55 strictly and close >= the 55-day maximum of
\* closing prices; a symbol for which one of the five is undefined is
\* never returned.
C21_SanxianIff ==
    sx_call.called =>
        /\ (sx_call.result /= {}) <=>
              (/\ ~SanxianUndefined
               /\ SanxianRow.close_price[1] * 8 > SanxianRow.ma8[1]
               /\ SanxianRow.ma8[1] * 21 > SanxianRow.ma21[1] * 8
               /\ SanxianRow.ma21[1] * 55 > SanxianRow.ma55[1] * 21
               /\ SanxianRow.close_price[1] >= SanxianRow.high_55d[1])
        /\ SanxianUndefined => sx_call.result = {}
        /\ \A r \in sx_call.result : r.stock_id = "1101"

\* a symbol was returned at a new 55-day closing high over rising averages
C21_Witness ==
    /\ sx_call.called
    /\ sx_call.history = <<Run(10, Num(10), 55), Run(12, Num(12), 5)>>
    /\ ~sx_call.last_close_missing
    /\ sx_call.result = {[stock_id |-> "1101", today_price |-> Num(12)]}

\* the observations on or before the target date of the call
ObservedBefore ==
    {mr_call.market_df[i] : i \in 1..Len(mr_call.market_df)} \cap
        {row \in MarketRows : row.date <= mr_call.target_date}
\* the last of them
EndPoint == CHOOSE row \in ObservedBefore : \A x \in ObservedBefore : x.date <= row.date
EarlierObservations == {x \in ObservedBefore : x.date < EndPoint.date}
\* the observation min(lookback, number of earlier observations) before it
BasePoint ==
    LET k == Min(mr_call.lookback, Cardinality(EarlierObservations))
    IN CHOOSE row \in ObservedBefore :
           Cardinality({x \in ObservedBefore : x.date > row.date}) = k
MarketReturnIsZero ==
    \/ ObservedBefore = {}
    \/ EarlierObservations = {}
    \/ EndPoint.taiex = NaN
    \/ BasePoint.taiex = NaN
    \/ BasePoint.taiex = Num(0)

\* C22: calculate_market_return takes the last observation on or before
\* target_date as the end point and the observation
\* min(lookback, number of earlier observations) positions before it as the
\* base, and returns (end - base) / base; it returns 0.0 when the series is
\* empty, has no observation on or before target_date, has no earlier
\* observation, or a level is missing or the base level is 0.
C22_MarketReturn ==
    mr_call.called =>
        IF MarketReturnIsZero
        THEN mr_call.result = Num(0)
        ELSE mr_call.result[1] * BasePoint.taiex[1] =
                 (EndPoint.taiex[1] - BasePoint.taiex[1]) * mr_call.result[2]
             /\ mr_call.result[2] /= 0

\* an unsorted series with a later observation: the return from 100 to 110
C22_Witness ==
    /\ mr_call.called
    /\ mr_call.market_df = <<[date |-> 3, taiex |-> Num(110)],
                             [date |-> 4, taiex |-> Num(0)],
                             [date |-> 1, taiex |-> Num(100)]>>
    /\ mr_call.target_date = 3
    /\ mr_call.lookback = 20
    /\ mr_call.result = <<10, 100>>

\* the keys of the payload of the last upsert
PayloadKeys ==
    {[stock_id |-> db_call.payload[i].stock_id, date |-> db_call.payload[i].date] :
        i \in 1..Len(db_call.payload)}
KeyOf(row) == [stock_id |-> row.stock_id, date |-> row.date]
\* the last row of the payload with the key of `row`
LastOfKey(key) ==
    db_call.payload[CHOOSE i \in 1..Len(db_call.payload) :
        /\ KeyOf(db_call.payload[i]) = key
        /\ \A j \in (i + 1)..Len(db_call.payload) : KeyOf(db_call.payload[j]) /= key]

\* C23: upsert_daily_price leaves at most one row per (stock_id, date), is
\* idempotent, replaces the values of an existing key by the payload's, and
\* neither deletes nor changes a bar whose key is not in the payload, also
\* when the payload spans several dates with different symbol sets.
C23_UpsertByKey ==
    db_call.op = "upsert_daily_price" =>
        /\ ~db_call.raised
        /\ \A a, b \in daily_price : KeyOf(a) = KeyOf(b) => a = b
        /\ upsert_daily_price(daily_price, db_call.payload).rows = daily_price
        /\ \A key \in PayloadKeys : LastOfKey(key) \in daily_price
        /\ {row \in daily_price : KeyOf(row) \notin PayloadKeys} =
               {row \in db_call.before : KeyOf(row) \notin PayloadKeys}

\* a payload over two dates with different symbols replaced one stored bar
\* and left the bars of the other symbol on each date as they were
C23_Witness ==
    /\ db_call.op = "upsert_daily_price"
    /\ db_call.payload = <<[stock_id |-> "2330", date |-> 1, close_price |-> 11],
                           [stock_id |-> "2317", date |-> 2, close_price |-> 10]>>
    /\ db_call.before = {[stock_id |-> "2330", date |-> 1, close_price |-> 10],
                         [stock_id |-> "2330", date |-> 2, close_price |-> 10],
                         [stock_id |-> "2317", date |-> 1, close_price |-> 11]}
    /\ daily_price = {[stock_id |-> "2330", date |-> 1, close_price |-> 11],
                      [stock_id |-> "2330", date |-> 2, close_price |-> 10],
                      [stock_id |-> "2317", date |-> 1, close_price |-> 11],
                      [stock_id |-> "2317", date |-> 2, close_price |-> 10]}

\* the stored rows of one (date, filter kind)
StoredResults(rows, filter_type, filter_date) ==
    {row \in rows : row.filter_date = filter_date /\ row.filter_type = filter_type}

\* C24: after every run of the filters for a (date, filter kind) the stored
\* FilterResult rows of that key are exactly the results of that run, for
\* every result list of the run, and the rows of other keys are unchanged.
C24_ResultsFullyReplaced ==
    (db_call.op = "run_filters" /\ db_call.filtered) =>
        /\ StoredResults(filter_result, "vcp", db_call.target_date) =
               FilterRows(db_call.vcp_results, "vcp", db_call.target_date)
        /\ StoredResults(filter_result, "sanxian", db_call.target_date) =
               FilterRows(db_call.sanxian_results, "sanxian", db_call.target_date)
        /\ \A d \in DbDates \ {db_call.target_date} : \A t \in FilterTypes :
               StoredResults(filter_result, t, d) = StoredResults(db_call.before, t, d)

\* the rows a request outcome yields once normalized to {date, taiex}
UsableRows(outcome) == IF outcome.raises THEN <<>> ELSE index_frame(outcome)

\* C25: FinMindClient.get_market_index queries the alternate index dataset
\* whenever the first dataset yields no usable rows, when the first request
\* raises and when it succeeds with an empty or unusable data array alike,
\* and returns the alternate's rows normalized to {date, taiex}.
C25_AlternateWheneverNoUsableRows ==
    (mi_call.called /\ UsableRows(mi_call.first) = <<>>) =>
        /\ mi_call.datasets = <<"TaiwanStockPrice", "TaiwanStockTotalReturnIndex">>
        /\ ~mi_call.raised => mi_call.result = UsableRows(mi_call.second)

\* C26: the log accessors are read-only snapshots: a call of
\* HybridClient.get_error_log, HybridClient.get_fallback_log,
\* FinMindClient.get_error_log or YFinanceClient.get_error_log leaves every
\* entry of the logs held in the clients and the coordinator unchanged
\* (same entries, same fields), for any number of calls.
C26_AccessorsReadOnly ==
    [][log_reads' /= log_reads =>
          /\ error_log' = error_log
          /\ yf_error_log' = yf_error_log
          /\ fallback_log' = fallback_log]_vars

\* C27: for a downloader constructed with 1 <= min_batch_size <=
\* initial_batch_size <= max_batch_size and 0 < initial_interval <=
\* max_interval, after any sequence of adjust calls batch_size lies in
\* [min_batch_size, max_batch_size], batch_interval lies in
\* [initial_interval, max_interval] and never decreases, and both counters
\* are non-negative.
C27_DownloaderWithinBounds ==
    /\ min_batch_size <= batch_size /\ batch_size <= max_batch_size
    /\ initial_interval <= batch_interval /\ batch_interval <= max_interval
    /\ error_count >= 0 /\ success_count >= 0
    /\ \A i \in 1..Len(adj_hist) :
          adj_hist[i].after.batch_interval >= adj_hist[i].before.batch_interval

\* failures brought the size from above its floor down to it and the
\* interval from below its cap up to it, and one more failure left both
C27_Witness ==
    /\ adj_hist /= <<>>
    /\ ~LastAdjust.success
    /\ LastAdjust.before.batch_size = min_batch_size
    /\ LastAdjust.before.batch_interval = max_interval
    /\ LastAdjust.after.error_count = 0
    /\ LastAdjust.before.error_count = 0
    /\ adj_hist[1].before.batch_size = max_batch_size
    /\ batch_size = min_batch_size
    /\ batch_interval = max_interval

\* between two calls, or the call has returned or raised
RqDone == rq_pc \in {"idle", "returned", "raised"}

\* the counts of a _make_request call: one retry counter for retries after
\* a status and retries after an exception, one wait before each request
RqBounded ==
    /\ rq_requests <= max_retries + 1
    /\ retry_count <= max_retries
    /\ rq_waits = rq_requests + (IF rq_pc = "request" THEN 1 ELSE 0)
    /\ rq_pc \in {"limiter", "request"} => rq_requests = retry_count
    /\ rq_pc \in {"returned", "raised"} => rq_requests = retry_count + 1
    /\ rq_pc = "raised" => \E status_code \in SUBSET (HttpErrorStatuses \cup ApiErrorStatuses) :
                               rq_raised = FinMindError(status_code)
    /\ rq_pc = "returned" => rq_raised = NotRaised

\* C28: for any sequence of attempt outcomes a _make_request call issues at
\* most max_retries + 1 requests, passes RateLimiter.wait() before each of
\* them, and terminates by returning data or raising FinMindError; retries
\* after a retryable status and retries after an exception count against
\* the same retry counter.
C28_BoundedAndTerminates ==
    /\ []RqBounded
    /\ (~RqDone) ~> RqDone

\* a call retried after a 503, after an exception and after a 429, and gave
\* up at the fourth request
C28_Witness ==
    /\ max_retries = DefaultMaxRetries
    /\ rq_pc = "raised"
    /\ {<<"http", 503>>, <<"exception", 0>>, <<"http", 429>>} \subseteq rq_seen
    /\ rq_requests = DefaultMaxRetries + 1
    /\ rq_waits = DefaultMaxRetries + 1
    /\ retry_count = DefaultMaxRetries

\* the batches of the running call, the one being downloaded included
BatchSlices ==
    [i \in 1..Len(batch_log) |-> batch_log[i].symbols] \o
        (IF yf_pc = "download" THEN <<batch_symbols>> ELSE <<>>)

\* C29: in YFinanceClient.get_stock_price the batches partition the list of
\* requested symbols: they are contiguous slices in request order, every
\* symbol is in exactly one batch, and the loop ends after at most
\* ceil(n / min_batch_size) batches.
C29_BatchesPartition ==
    /\ \A i \in 1..Len(BatchSlices) :
          /\ BatchSlices[i][1] = (IF i = 1 THEN 1 ELSE BatchSlices[i - 1][2] + 1)
          /\ BatchSlices[i][1] <= BatchSlices[i][2]
          /\ BatchSlices[i][2] <= yf_n
    /\ \A k \in 1..processed :
          Cardinality({i \in 1..Len(batch_log) :
              batch_log[i].symbols[1] <= k /\ k <= batch_log[i].symbols[2]}) = 1
    /\ yf_pc = "returned" => processed = yf_n
    /\ Len(BatchSlices) * min_batch_size < yf_n + min_batch_size

\* 180 symbols went out in four batches of 100, 50, 25 and 5, the size
\* having been halved after the first and after the second
C29_Witness ==
    /\ yf_pc = "returned"
    /\ yf_n = 180
    /\ Len(batch_log) = 4
    /\ batch_log[1].symbols = <<1, 100>>
    /\ batch_log[2].symbols = <<101, 150>>
    /\ batch_log[3].symbols = <<151, 175>>
    /\ batch_log[4].symbols = <<176, 180>>

\* the calls of FinMind's price operation made by the last operation
FinMindPriceCalls ==
    {i \in DOMAIN hy_last.out.calls :
        /\ hy_last.out.calls[i].client = "FinMind"
        /\ hy_last.out.calls[i].method = "get_stock_price"}
\* the methods of the fallback events the last operation logged
LoggedEvents == {hy_last.out.events[i].method : i \in DOMAIN hy_last.out.events}

\* C30: one get_stock_price of the hybrid client calls FinMind's price
\* operation at most once, and not at all exactly when yfinance returned
\* rows for every requested symbol or no symbol was requested; a full
\* fallback and a gap-fill never both happen in one invocation.
C30_FinMindAtMostOnce ==
    hy_last.method = "get_stock_price" =>
        /\ Cardinality(FinMindPriceCalls) <= 1
        /\ FinMindPriceCalls = {} <=>
              \/ hy_last.stock_ids = <<>>
              \/ ~hy_last.yf.raises /\ hy_last.yf.syms = Requested
        /\ ~({"get_stock_price", "get_stock_price_fill"} \subseteq LoggedEvents)
        /\ "get_stock_price" \in LoggedEvents =>
              hy_last.out.calls = <<Call("yfinance", "get_stock_price", Requested),
                                    Call("FinMind", "get_stock_price", Requested)>>
        /\ "get_stock_price_fill" \in LoggedEvents =>
              hy_last.out.calls = <<Call("yfinance", "get_stock_price", Requested),
                                    Call("FinMind", "get_stock_price", Missing)>>

\* yfinance returned rows for each of three requested symbols and FinMind
\* was not asked
C30_Witness ==
    /\ PriceOp
    /\ Cardinality(Requested) = 3
    /\ ~hy_last.yf.raises
    /\ hy_last.yf.syms = Requested
    /\ FinMindPriceCalls = {}
    /\ hy_last.out.calls = <<Call("yfinance", "get_stock_price", Requested)>>

=============================================================================
